---- MODULE Spec2Model ----
(***************************************************************************)
(* A model of getlantern/algeneva: the request model (request.go), the     *)
(* action primitives (actions.go), the strategy evaluator (strategy.go),   *)
(* the streaming connection adapter (conn.go) and the request normalizer   *)
(* (normalize.go).                                                         *)
(*                                                                         *)
(* A Go string or []byte is a sequence of one-character strings.  Offsets  *)
(* are 0-based as in Go: Slice(s, i, j) is s[i:j].                         *)
(***************************************************************************)
EXTENDS Integers, Sequences, FiniteSets, TLC

VARIABLES
    \* ---- connection adapter (conn.go) ----
    strategy,      \* conn.strategy: the rules applied to every request
    buf,           \* conn.buf
    remaining,     \* conn.remaining, a uint64: v < 0 stands for 2^64 + v
    readHeaders,   \* conn.readHeaders
    wire,          \* what the underlying net.Conn accepted of the current request
    cur,           \* the request the caller is writing
    pos,           \* how many bytes of cur it has handed to conn.Write
    stage,         \* "idle", "writing", "complete" (all of cur written) or "failed"
    nreq,          \* how many requests the caller has begun on this adapter
    clean,         \* every earlier request was written completely, without an
                   \* error, and declared the Content-Length its body has
    flushes,       \* how often a head was written to the transport for cur
    last,          \* the last conn.Write call on cur: the buffer it saw (seen),
                   \* whether it returned len(p) (full) and an error (err), and
                   \* whether the transport got nothing during it (silent)
    \* ---- strategy evaluator (strategy.go, actions.go) ----
    sreq,          \* the bytes HTTPStrategy.Apply is given
    srules,        \* the rules of its strategy, as written
    sout,          \* what it returned, with the iterations of its loop
    \* ---- single calls of the parsers, printers and the normalizer ----
    call,          \* the function called and its arguments
    ret            \* what it returned

vars == <<strategy, buf, remaining, readHeaders, wire, cur, pos, stage, nreq, clean,
          flushes, last, sreq, srules, sout, call, ret>>

connVars == <<strategy, buf, remaining, readHeaders, wire, cur, pos, stage, nreq,
              clean, flushes, last>>
stratVars == <<sreq, srules, sout>>
callVars == <<call, ret>>

\* no call made, nothing returned
NoCall == [op |-> "none"]
NoReturn == [done |-> FALSE]
CallIdle == call = NoCall /\ ret = NoReturn

----------------------------------------------------------------------------
(* Bytes and the Go string functions the code calls.                       *)

CR == "\r"
LF == "\n"
SP == " "
CRLF == <<CR, LF>>
CRLFCRLF == <<CR, LF, CR, LF>>

UpperChars == <<"A","B","C","D","E","F","G","H","I","J","K","L","M",
                "N","O","P","Q","R","S","T","U","V","W","X","Y","Z">>
LowerChars == <<"a","b","c","d","e","f","g","h","i","j","k","l","m",
                "n","o","p","q","r","s","t","u","v","w","x","y","z">>
Digits == <<"0","1","2","3","4","5","6","7","8","9">>

\* s[i:j]
Slice(s, i, j) == SubSeq(s, i + 1, j)

\* strings.Index / bytes.Index: offset of the first occurrence of sub, or -1
Index(s, sub) ==
    LET hits == {i \in 0..(Len(s) - Len(sub)) : Slice(s, i, i + Len(sub)) = sub}
    IN IF hits = {} THEN -1 ELSE CHOOSE i \in hits : \A j \in hits : i <= j

ToLowerChar(c) ==
    IF \E i \in 1..26 : UpperChars[i] = c
    THEN LowerChars[CHOOSE i \in 1..26 : UpperChars[i] = c]
    ELSE c

ToUpperChar(c) ==
    IF \E i \in 1..26 : LowerChars[i] = c
    THEN UpperChars[CHOOSE i \in 1..26 : LowerChars[i] = c]
    ELSE c

\* strings.ToLower, strings.ToUpper (ASCII)
ToLower(s) == [i \in 1..Len(s) |-> ToLowerChar(s[i])]
ToUpper(s) == [i \in 1..Len(s) |-> ToUpperChar(s[i])]

\* strings.Split(s, sep) for a non-empty sep: always at least one part
RECURSIVE Split(_, _)
Split(s, sep) ==
    LET i == Index(s, sep)
    IN IF i = -1 THEN <<s>>
       ELSE <<Slice(s, 0, i)>> \o Split(Slice(s, i + Len(sep), Len(s)), sep)

\* strings.Join(parts, sep)
RECURSIVE Join(_, _)
Join(parts, sep) ==
    IF Len(parts) = 0 THEN <<>>
    ELSE IF Len(parts) = 1 THEN parts[1]
    ELSE parts[1] \o sep \o Join(Tail(parts), sep)

\* strings.Replace(s, old, new, 1) for a non-empty old
ReplaceFirst(s, old, new) ==
    LET i == Index(s, old)
    IN IF i = -1 THEN s
       ELSE Slice(s, 0, i) \o new \o Slice(s, i + Len(old), Len(s))

\* textproto.TrimString: strips leading and trailing ASCII space, \t, \n, \r
IsASCIISpace(c) == c \in {" ", "\t", "\n", "\r"}

RECURSIVE TrimLeft(_)
TrimLeft(s) ==
    IF Len(s) > 0 /\ IsASCIISpace(s[1]) THEN TrimLeft(Tail(s)) ELSE s

RECURSIVE TrimRight(_)
TrimRight(s) ==
    IF Len(s) > 0 /\ IsASCIISpace(s[Len(s)])
    THEN TrimRight(Slice(s, 0, Len(s) - 1)) ELSE s

TrimString(s) == TrimRight(TrimLeft(s))

DigitVal(c) == (CHOOSE i \in 1..10 : Digits[i] = c) - 1
IsDigit(c) == \E i \in 1..10 : Digits[i] = c

\* strconv.ParseUint(s, 10, 64): the value, or -1 for a syntax error (the
\* model's inputs have one or two digits, so the range error never arises)
RECURSIVE UintValue(_)
UintValue(s) ==
    IF Len(s) = 0 THEN 0
    ELSE 10 * UintValue(Slice(s, 0, Len(s) - 1)) + DigitVal(s[Len(s)])

ParseUint(s) ==
    IF Len(s) > 0 /\ \A i \in 1..Len(s) : IsDigit(s[i]) THEN UintValue(s) ELSE -1

----------------------------------------------------------------------------
(* The request model (request.go).                                         *)

HTTP10 == <<"H","T","T","P","/","1",".","0">>
HTTP11 == <<"H","T","T","P","/","1",".","1">>

NoRequest == [err |-> TRUE]

\* newRequest: the parsed request, or NoRequest when it returns an error
newRequest(req) ==
    LET idx == Index(req, CRLFCRLF) IN
    IF idx = -1 THEN NoRequest
    ELSE
        LET head == Slice(req, 0, idx)
            cut == Index(head, CRLF)
            startLine == IF cut = -1 THEN head ELSE Slice(head, 0, cut)
            headers == IF cut = -1 THEN <<>> ELSE Slice(head, cut + 2, Len(head))
            mpv == Split(startLine, <<SP>>)
        IN IF Len(mpv) # 3 THEN NoRequest
           ELSE IF mpv[3] # HTTP10 /\ mpv[3] # HTTP11 THEN NoRequest
           ELSE [err |-> FALSE, method |-> mpv[1], path |-> mpv[2], version |-> mpv[3],
                 headers |-> headers, body |-> Slice(req, idx + 4, Len(req))]

\* request.bytes
bytes(r) ==
    r.method \o <<SP>> \o r.path \o <<SP>> \o r.version \o CRLF
        \o r.headers \o CRLFCRLF \o r.body

\* request.getHeader: the text from the first case-insensitive occurrence of
\* name+":" in the headers block up to the next \r\n (or the end)
getHeader(r, name) ==
    LET headers == ToLower(r.headers)
        idx == Index(headers, name \o <<":">>)
    IN IF idx = -1 THEN <<>>
       ELSE LET rest == Slice(r.headers, idx, Len(r.headers))
                nl == Index(rest, CRLF)
            IN Slice(rest, 0, IF nl = -1 THEN Len(rest) ELSE nl)

----------------------------------------------------------------------------
(* The action primitives (actions.go).  An action is a record whose kind   *)
(* says which struct it is; a field is [name, value, isHeader].  apply     *)
(* yields the SET of results the call can return: a singleton except for   *)
(* insert at a random location, which draws from math/rand.                *)

NilAction == [kind |-> "nil"]
TerminateAction == [kind |-> "terminate"]

terminateIfNil(a) == IF a = NilAction THEN TerminateAction ELSE a

\* strings.Repeat
RECURSIVE Repeat(_, _)
Repeat(s, n) == IF n <= 0 THEN <<>> ELSE s \o Repeat(s, n - 1)

\* url.PathUnescape for the escapes the model's strategies use; Unescaped
\* lists them as <<first hex digit, second hex digit, byte>>
Unescaped == { <<"2", "0", " ">>, <<"0", "9", "\t">>, <<"0", "D", "\r">>,
               <<"0", "d", "\r">>, <<"0", "A", "\n">>, <<"0", "a", "\n">>,
               <<"2", "D", "-">>, <<"2", "d", "-">> }

RECURSIVE PathUnescapeOK(_)
PathUnescapeOK(v) ==
    IF Len(v) = 0 THEN TRUE
    ELSE IF v[1] = "%"
         THEN /\ Len(v) >= 3
              /\ \E u \in Unescaped : u[1] = v[2] /\ u[2] = v[3]
              /\ PathUnescapeOK(Slice(v, 3, Len(v)))
         ELSE PathUnescapeOK(Tail(v))

RECURSIVE PathUnescape(_)
PathUnescape(v) ==
    IF Len(v) = 0 THEN <<>>
    ELSE IF v[1] = "%"
         THEN <<(CHOOSE u \in Unescaped : u[1] = v[2] /\ u[2] = v[3])[3]>>
                  \o PathUnescape(Slice(v, 3, Len(v)))
         ELSE <<v[1]>> \o PathUnescape(Tail(v))

ActionError == [kind |-> "error"]

NewChangecaseAction(c, next) ==
    IF c # "upper" /\ c # "lower" THEN ActionError
    ELSE [kind |-> "changecase", Case |-> c, Next |-> terminateIfNil(next)]

NewInsertAction(v, l, c, n, next) ==
    IF l # "start" /\ l # "end" /\ l # "mid" /\ l # "random" THEN ActionError
    ELSE IF c # "name" /\ c # "value" THEN ActionError
    ELSE IF ~PathUnescapeOK(v) THEN ActionError
    ELSE LET num == IF n <= 0 THEN 1 ELSE n
         IN [kind |-> "insert", Value |-> v, value |-> Repeat(PathUnescape(v), num),
             Location |-> l, Component |-> c, Num |-> num, Next |-> terminateIfNil(next)]

NewReplaceAction(v, c, n, next) ==
    IF c # "name" /\ c # "value" THEN ActionError
    ELSE IF ~PathUnescapeOK(v) THEN ActionError
    ELSE LET num == IF n <= 0 THEN 1 ELSE n
         IN [kind |-> "replace", Value |-> v, value |-> Repeat(PathUnescape(v), num),
             Component |-> c, Num |-> num, Next |-> terminateIfNil(next)]

NewDuplicateAction(l, r) ==
    [kind |-> "duplicate", LeftAction |-> terminateIfNil(l),
     RightAction |-> terminateIfNil(r)]

\* InsertAction.insert: the strings it can return (rand.Intn(len-1)+1 is any
\* offset in 1..len-1)
insert(i, str) ==
    CASE i.Location = "start" -> {i.value \o str}
      [] i.Location = "end" -> {str \o i.value}
      [] i.Location = "mid" ->
            {Slice(str, 0, Len(str) \div 2) \o i.value
                \o Slice(str, Len(str) \div 2, Len(str))}
      [] i.Location = "random" ->
            IF Len(str) <= 1 THEN {str}
            ELSE {Slice(str, 0, n) \o i.value \o Slice(str, n, Len(str)) :
                    n \in 1..(Len(str) - 1)}
      [] OTHER -> {str}

\* the closure InsertAction.Apply and ReplaceAction.Apply hand to
\* modifyFieldComponent, given as the action a it closes over: a.insert for an
\* insert action, the constant a.value for a replace action. Its result is the
\* set of strings the call can return.
callFn(a, str) == IF a.kind = "insert" THEN insert(a, str) ELSE {a.value}

\* modifyFieldComponent, with fn the action whose closure is passed
modifyFieldComponent(field, component, fn) ==
    IF component = "name" /\ field.isHeader
    THEN {[field EXCEPT !.name = s] : s \in callFn(fn, field.name)}
    ELSE {[field EXCEPT !.value = s] : s \in callFn(fn, field.value)}

\* the field ChangecaseAction.Apply hands to its next action
ChangecaseField(a, field) ==
    CASE a.Case = "upper" ->
            [field EXCEPT !.name = ToUpper(@), !.value = ToUpper(@)]
      [] a.Case = "lower" ->
            [field EXCEPT !.name = ToLower(@), !.value = ToLower(@)]
      [] OTHER -> field

RECURSIVE ActionApply(_, _)

\* DuplicateAction.Apply: append(f0, f1...)
DuplicateApply_OriginalFirst(a, field) ==
    {<<field>> \o f0 \o f1 : f0 \in ActionApply(a.LeftAction, field),
                            f1 \in ActionApply(a.RightAction, field)}

DuplicateApply(a, field) ==
    {f0 \o f1 : f0 \in ActionApply(a.LeftAction, field),
                f1 \in ActionApply(a.RightAction, field)}

\* Action.Apply of every action kind
ActionApply(a, field) ==
    CASE a.kind = "terminate" -> {<<field>>}
      [] a.kind = "changecase" -> ActionApply(a.Next, ChangecaseField(a, field))
      [] a.kind = "insert" ->
            UNION {ActionApply(a.Next, f) :
                    f \in modifyFieldComponent(field, a.Component, a)}
      [] a.kind = "replace" ->
            UNION {ActionApply(a.Next, f) :
                    f \in modifyFieldComponent(field, a.Component, a)}
      [] a.kind = "duplicate" -> DuplicateApply(a, field)

----------------------------------------------------------------------------
(* The strategy evaluator (strategy.go, the HTTPStrategy version).         *)

METHOD == <<"m","e","t","h","o","d">>
PATH == <<"p","a","t","h">>
VERSION == <<"v","e","r","s","i","o","n">>
HTTP == <<"H","T","T","P">>
STAR == <<"*">>

NoTrigger == [err |-> TRUE]

\* parseTrigger: the trigger, or NoTrigger when it returns an error
parseTrigger(str) ==
    LET parts == Split(str, <<":">>) IN
    IF \/ Len(str) = 0
       \/ str[1] # "["
       \/ str[Len(str)] # "]"
       \/ Len(parts) # 3
    THEN NoTrigger
    ELSE LET proto == ToUpper(Slice(parts[1], 1, Len(parts[1])))
         IN IF proto # HTTP THEN NoTrigger
            ELSE [err |-> FALSE, proto |-> proto, targetField |-> ToLower(parts[2]),
                  matchStr |-> ToLower(Slice(parts[3], 0, Len(parts[3]) - 1))]

matchValue(value, matchstr) == matchstr = STAR \/ value = matchstr

EmptyField == [name |-> <<>>, value |-> <<>>, isHeader |-> FALSE]

\* trigger.match: [fld, match]
triggerMatch(t, req) ==
    IF t.proto = <<>> THEN [fld |-> EmptyField, match |-> FALSE]
    ELSE IF t.targetField = METHOD
    THEN [fld |-> [name |-> METHOD, value |-> req.method, isHeader |-> FALSE],
          match |-> matchValue(req.method, t.matchStr)]
    ELSE IF t.targetField = PATH
    THEN [fld |-> [name |-> PATH, value |-> req.path, isHeader |-> FALSE],
          match |-> matchValue(req.path, t.matchStr)]
    ELSE IF t.targetField = VERSION
    THEN [fld |-> [name |-> VERSION, value |-> req.version, isHeader |-> FALSE],
          match |-> matchValue(req.version, t.matchStr)]
    ELSE LET header == getHeader(req, t.targetField) IN
         IF header = <<>> THEN [fld |-> EmptyField, match |-> FALSE]
         ELSE LET parts == Split(header, <<":">>)
                  fld == [name |-> parts[1], value |-> parts[2], isHeader |-> TRUE]
              IN [fld |-> fld, match |-> matchValue(fld.value, t.matchStr)]

\* rule.apply
ruleApply(r, f) == ActionApply(r.tree, f)

\* the values of mods, concatenated in order
RECURSIVE ConcatValues(_)
ConcatValues(mods) ==
    IF Len(mods) = 0 THEN <<>> ELSE mods[1].value \o ConcatValues(Tail(mods))

\* applyModifications: the request it leaves
applyModifications(req, fld, mods) ==
    LET newValue ==
            IF fld.isHeader
            THEN Join([i \in 1..Len(mods) |-> mods[i].name \o <<":">> \o mods[i].value],
                      CRLF)
            ELSE ConcatValues(mods)
    IN CASE fld.name = METHOD -> [req EXCEPT !.method = newValue]
         [] fld.name = PATH -> [req EXCEPT !.path = newValue]
         [] fld.name = VERSION -> [req EXCEPT !.version = newValue]
         [] OTHER ->
              [req EXCEPT !.headers =
                    ReplaceFirst(@, fld.name \o <<":">> \o fld.value, newValue)]

\* One iteration of the loop of HTTPStrategy.apply, as a record of what it did
Step(req, m, mods, after) ==
    [before |-> req, fld |-> m.fld, match |-> m.match, mods |-> mods, after |-> after]

\* a loop that matches every trigger against the request it was first given
RECURSIVE applyTraceFrom(_, _, _)
applyTraceFrom(rules, req, orig) ==
    IF Len(rules) = 0 THEN {<<>>}
    ELSE LET r == Head(rules)
             m == triggerMatch(r.trigger, orig)
         IN IF m.match
            THEN UNION {
                    LET after == applyModifications(req, m.fld, mods)
                    IN {<<Step(req, m, mods, after)>> \o rest :
                            rest \in applyTraceFrom(Tail(rules), after, orig)} :
                    mods \in ruleApply(r, m.fld)}
            ELSE {<<Step(req, m, <<>>, req)>> \o rest :
                    rest \in applyTraceFrom(Tail(rules), req, orig)}

applyTrace_MatchOriginal(rules, req) == applyTraceFrom(rules, req, req)

\* HTTPStrategy.apply: the runs of its loop over rules, each the sequence of
\* its iterations (a set, because a random insert has several outcomes)
RECURSIVE applyTrace(_, _)
applyTrace(rules, req) ==
    IF Len(rules) = 0 THEN {<<>>}
    ELSE LET r == Head(rules)
             m == triggerMatch(r.trigger, req)
         IN IF m.match
            THEN UNION {
                    LET after == applyModifications(req, m.fld, mods)
                    IN {<<Step(req, m, mods, after)>> \o rest :
                            rest \in applyTrace(Tail(rules), after)} :
                    mods \in ruleApply(r, m.fld)}
            ELSE {<<Step(req, m, <<>>, req)>> \o rest :
                    rest \in applyTrace(Tail(rules), req)}

\* the request a run of the loop leaves
Final(req, tr) == IF Len(tr) = 0 THEN req ELSE tr[Len(tr)].after

\* HTTPStrategy.apply: the requests it can leave
apply(rules, req) == {Final(req, tr) : tr \in applyTrace(rules, req)}

----------------------------------------------------------------------------
(* HTTPStrategy.Apply on bounded inputs: a request and a strategy of up to  *)
(* MaxRules rules, each a trigger text and an action tree.                  *)

MaxRules == 2

StrategyRequests == {
    \* GET / HTTP/1.1 | Host: a
    <<"G","E","T"," ","/"," ","H","T","T","P","/","1",".","1","\r","\n","H","o","s","t",":"," ","a","\r","\n","\r","\n">>,
    \* GET / HTTP/1.1 | Host: a:8 | Ab: c | body hi
    <<"G","E","T"," ","/"," ","H","T","T","P","/","1",".","1","\r","\n","H","o","s","t",":"," ","a",":","8","\r","\n","A","b",":"," ","c","\r","\n","\r","\n","h","i">>,
    \* get / HTTP/1.0 | X-Host: b | Host: a
    <<"g","e","t"," ","/"," ","H","T","T","P","/","1",".","0","\r","\n","X","-","H","o","s","t",":"," ","b","\r","\n","H","o","s","t",":"," ","a","\r","\n","\r","\n">> }

Esc20 == <<"%","2","0">>

InsSpaceStartName == NewInsertAction(Esc20, "start", "name", 1, NilAction)
InsXEndValue2 == NewInsertAction(<<"x">>, "end", "value", 2, NilAction)
InsXEndValue == NewInsertAction(<<"x">>, "end", "value", 0, NilAction)
InsZMidName == NewInsertAction(<<"z">>, "mid", "name", 1, NilAction)
LowerCase == NewChangecaseAction("lower", NilAction)
UpperCase == NewChangecaseAction("upper", NilAction)
DupUpper == NewDuplicateAction(NilAction, UpperCase)
DupDeep ==
    NewDuplicateAction(
        NewReplaceAction(<<"y">>, "value", 1, NilAction),
        NewInsertAction(Esc20, "start", "value", 1, UpperCase))
DupNested ==
    NewDuplicateAction(NewDuplicateAction(InsZMidName, NilAction), LowerCase)

\* the rules strategies are drawn from, as written: <trigger>-<action>-|
RuleSources == {
    [trigger |-> <<"[","H","T","T","P",":","h","o","s","t",":","*","]">>, tree |-> InsSpaceStartName],
    [trigger |-> <<"[","H","T","T","P",":","h","o","s","t",":","*","]">>, tree |-> InsXEndValue],
    [trigger |-> <<"[","H","T","T","P",":","h","o","s","t",":"," ","a","]">>, tree |-> DupUpper],
    [trigger |-> <<"[","H","T","T","P",":","a","b",":","*","]">>, tree |-> DupNested],
    [trigger |-> <<"[","H","T","T","P",":","m","e","t","h","o","d",":","G","E","T","]">>, tree |-> LowerCase],
    [trigger |-> <<"[","H","T","T","P",":","m","e","t","h","o","d",":","*","]">>, tree |-> LowerCase],
    [trigger |-> <<"[","h","t","t","p",":","m","e","t","h","o","d",":","g","e","t","]">>, tree |-> InsXEndValue2],
    [trigger |-> <<"[","H","T","T","P",":","p","a","t","h",":","*","]">>, tree |-> DupDeep],
    [trigger |-> <<"[","H","T","T","P",":","v","e","r","s","i","o","n",":","H","T","T","P","/","1",".","1","]">>, tree |-> DupUpper] }

\* the rules NewHTTPStrategy builds from rule sources (parseRule, with the
\* action tree given as built)
ParsedRules(sources) ==
    [i \in 1..Len(sources) |->
        [trigger |-> parseTrigger(sources[i].trigger), tree |-> sources[i].tree]]

NotApplied == [applied |-> FALSE]

StrategyInit ==
    /\ sreq \in StrategyRequests
    /\ srules \in UNION {[1..n -> RuleSources] : n \in 1..MaxRules}
    /\ sout = NotApplied

\* HTTPStrategy.Apply(req): newRequest, apply, bytes
HTTPStrategyApply ==
    /\ sout = NotApplied
    /\ LET r == newRequest(sreq)
           rules == ParsedRules(srules)
       IN /\ ~r.err
          /\ \A i \in 1..Len(rules) : ~rules[i].trigger.err
          /\ \E tr \in applyTrace(rules, r) :
                sout' = [applied |-> TRUE, rules |-> rules, req |-> r, steps |-> tr,
                         out |-> bytes(Final(r, tr))]
    /\ UNCHANGED <<sreq, srules>>

\* the connection adapter at rest, for the specifications that do not use it
ConnIdle ==
    /\ strategy = <<>>
    /\ buf = <<>>
    /\ remaining = 0
    /\ readHeaders = FALSE
    /\ wire = <<>>
    /\ cur = <<>>
    /\ pos = 0
    /\ stage = "idle"
    /\ nreq = 0
    /\ clean = TRUE
    /\ flushes = 0
    /\ last = [called |-> FALSE]

SpecStrategyInit == StrategyInit /\ ConnIdle /\ CallIdle
SpecStrategyNext == HTTPStrategyApply /\ UNCHANGED <<connVars, callVars>>
SpecStrategy == SpecStrategyInit /\ [][SpecStrategyNext]_vars

----------------------------------------------------------------------------
(* Properties of the strategy evaluator, checked under SpecStrategy.       *)

Matched(k) == sout.applied /\ k \in 1..Len(sout.steps) /\ sout.steps[k].match

\* the requests left by applying the one-rule strategies [r1], ..., [rn] one
\* after another, starting from any of reqs
RECURSIVE OneByOne(_, _)
OneByOne(rules, reqs) ==
    IF Len(rules) = 0 THEN reqs
    ELSE OneByOne(Tail(rules), UNION {apply(<<Head(rules)>>, r) : r \in reqs})

\* C6: HTTPStrategy.apply takes the rules in list order, and evaluates the
\* trigger and the action tree of rule k against the request as rules 1..k-1
\* left it; its result is that of applying the one-rule strategies [r1], ...,
\* [rn] one after another.
C6_RulesApplyInOrder ==
    sout.applied =>
        /\ Len(sout.steps) = Len(sout.rules)
        /\ \A k \in 1..Len(sout.steps) :
            LET st == sout.steps[k]
                given == IF k = 1 THEN sout.req ELSE sout.steps[k - 1].after
                m == triggerMatch(sout.rules[k].trigger, given)
            IN /\ st.before = given
               /\ st.match = m.match
               /\ st.match => /\ st.fld = m.fld
                              /\ st.mods \in ActionApply(sout.rules[k].tree, m.fld)
                              /\ st.after = applyModifications(given, m.fld, st.mods)
               /\ ~st.match => st.after = given
        /\ Final(sout.req, sout.steps) \in OneByOne(sout.rules, {sout.req})
        /\ apply(sout.rules, sout.req) = OneByOne(sout.rules, {sout.req})

\* C6 witness: the second rule matched, and matched only because of what the
\* first rule did to the request
C6_SecondRuleSeesFirst ==
    /\ Matched(1) /\ Matched(2)
    /\ ~triggerMatch(sout.rules[2].trigger, sout.req).match
    /\ sout.steps[2].after # sout.steps[1].after

\* <match> as written in the trigger text [<proto>:<field>:<match>]
WrittenMatch(text) ==
    LET parts == Split(text, <<":">>)
    IN Slice(parts[3], 0, Len(parts[3]) - 1)

\* C7: a trigger parsed from [HTTP:<field>:<match>] reports a match exactly
\* when <match> is "*" or the current value of the target field equals <match>
\* byte for byte as the rule text spells it.
C7_MatchIsLiteralAsWritten ==
    sout.applied =>
        \A k \in 1..Len(sout.steps) :
            LET st == sout.steps[k]
                w == WrittenMatch(srules[k].trigger)
            IN st.fld # EmptyField =>
                (st.match <=> (w = STAR \/ st.fld.value = w))

\* C8: the Field of a header trigger has as name the text before the first
\* ':' of the header line it found and as value everything after that ':' up
\* to the end of the line, further ':' included.
C8_HeaderSplitAtFirstColon ==
    sout.applied =>
        \A k \in 1..Len(sout.steps) :
            LET st == sout.steps[k]
                line == getHeader(st.before, sout.rules[k].trigger.targetField)
                c == Index(line, <<":">>)
            IN st.fld.isHeader =>
                /\ st.fld.name = Slice(line, 0, c)
                /\ st.fld.value = Slice(line, c + 1, Len(line))

\* the header lines of a headers block
Lines(headers) == Split(headers, CRLF)

\* the first header line in which name+":" occurs, ignoring case
FoundLine(headers, name) ==
    CHOOSE j \in 1..Len(Lines(headers)) :
        /\ Index(ToLower(Lines(headers)[j]), name \o <<":">>) # -1
        /\ \A i \in 1..(j - 1) :
                Index(ToLower(Lines(headers)[i]), name \o <<":">>) = -1

Rendered(mods) ==
    Join([i \in 1..Len(mods) |-> mods[i].name \o <<":">> \o mods[i].value], CRLF)

\* C9: the modifications of a rule that matched header line H replace exactly
\* line H by the modified fields, rendered <name>:<value> and joined by \r\n,
\* and leave every other header line, the method, path, version and body as
\* they were; those of a rule that matched the method, path or version set
\* only that component, to the concatenation of the modified values.
C9_ModificationsReplaceTheLine ==
    sout.applied =>
        \A k \in 1..Len(sout.steps) :
            LET st == sout.steps[k]
                b == st.before
                t == sout.rules[k].trigger.targetField
            IN st.match =>
                IF st.fld.isHeader
                THEN LET ls == Lines(b.headers)
                         j == FoundLine(b.headers, t)
                     IN st.after =
                            [b EXCEPT !.headers =
                                Join([i \in 1..Len(ls) |->
                                        IF i = j THEN Rendered(st.mods) ELSE ls[i]],
                                     CRLF)]
                ELSE st.after =
                        CASE t = METHOD -> [b EXCEPT !.method = ConcatValues(st.mods)]
                          [] t = PATH -> [b EXCEPT !.path = ConcatValues(st.mods)]
                          [] t = VERSION -> [b EXCEPT !.version = ConcatValues(st.mods)]

\* the (action, field) pairs Action.Apply is called with while a applies to f
RECURSIVE Calls(_, _)
Calls(a, f) ==
    {<<a, f>>} \cup
    CASE a.kind = "terminate" -> {}
      [] a.kind = "changecase" -> Calls(a.Next, ChangecaseField(a, f))
      [] a.kind = "insert" ->
            UNION {Calls(a.Next, g) : g \in modifyFieldComponent(f, a.Component, a)}
      [] a.kind = "replace" ->
            UNION {Calls(a.Next, g) : g \in modifyFieldComponent(f, a.Component, a)}
      [] a.kind = "duplicate" -> Calls(a.LeftAction, f) \cup Calls(a.RightAction, f)

\* what C10 says of one duplicate action d applied to field f
DuplicateIsLeftThenRight(d, f) ==
    /\ ActionApply(d, f) =
            {l \o r : l \in ActionApply(d.LeftAction, f),
                      r \in ActionApply(d.RightAction, f)}
    /\ \A res \in ActionApply(d, f) :
        \E l \in ActionApply(d.LeftAction, f), r \in ActionApply(d.RightAction, f) :
            /\ Len(res) = Len(l) + Len(r)
            /\ \A i \in 1..Len(l) : res[i] = l[i]
            /\ \A i \in 1..Len(r) : res[Len(l) + i] = r[i]
    /\ d.LeftAction = TerminateAction =>
            \A res \in ActionApply(d, f) : res[1] = f
    /\ (d.LeftAction = TerminateAction /\ d.RightAction = TerminateAction) =>
            ActionApply(d, f) = {<<f, f>>}

\* C10: duplicate(L,R).apply(f) is L.apply(f) followed by R.apply(f): as long
\* as both together, the left results first, and without f added to them.
C10_DuplicateIsLeftThenRight ==
    sout.applied =>
        \A k \in 1..Len(sout.steps) :
            LET st == sout.steps[k] IN
            st.match =>
                /\ \A c \in Calls(sout.rules[k].tree, st.fld) :
                        c[1].kind = "duplicate" => DuplicateIsLeftThenRight(c[1], c[2])
                /\ sout.rules[k].tree.kind = "duplicate" =>
                        \E l \in ActionApply(sout.rules[k].tree.LeftAction, st.fld),
                           r \in ActionApply(sout.rules[k].tree.RightAction, st.fld) :
                            st.mods = l \o r

\* C10 witness: a duplicate whose two branches are both real actions was
\* applied, and no result is the input field
C10_DuplicateApplied ==
    \E k \in 1..2 :
        /\ Matched(k)
        /\ sout.rules[k].tree.kind = "duplicate"
        /\ sout.rules[k].tree.LeftAction # TerminateAction
        /\ sout.rules[k].tree.RightAction # TerminateAction
        /\ Len(sout.steps[k].mods) = 2
        /\ \A i \in 1..2 : sout.steps[k].mods[i] # sout.steps[k].fld

----------------------------------------------------------------------------
(* The connection adapter (conn.go, the buffering version).  c is the conn: *)
(* [strategy, buf, remaining, readHeaders].  A Write call yields the conn   *)
(* it leaves, what it returns (n, err), and the bytes the underlying        *)
(* net.Conn accepted during the call.                                       *)

CONTENTLENGTH == <<"c","o","n","t","e","n","t","-","l","e","n","g","t","h">>

\* uint64 subtraction.  A conn.remaining below 0 stands for 2^64 + remaining,
\* the value the subtraction wraps around to.
Sub64(a, b) == a - b

\* How the underlying net.Conn takes a Write of data: t.fail says whether it
\* returns an error, and then t.most whether it had accepted all but the last
\* byte or nothing.
Transports == {[fail |-> FALSE, most |-> FALSE], [fail |-> TRUE, most |-> FALSE],
               [fail |-> TRUE, most |-> TRUE]}

Accepted(t, data) ==
    IF ~t.fail THEN Len(data)
    ELSE IF t.most /\ Len(data) > 0 THEN Len(data) - 1 ELSE 0

\* conn.reset without c.buf.Reset()
reset_KeepsBuf(c) == [c EXCEPT !.remaining = 0, !.readHeaders = FALSE]

\* conn.reset
reset(c) == [c EXCEPT !.buf = <<>>, !.remaining = 0, !.readHeaders = FALSE]

Returned(c, n, err, wrote, phase) ==
    [c |-> c, n |-> n, err |-> err, wrote |-> wrote, phase |-> phase]

\* a buffering branch that passes p on to the transport as well
WriteBuffering_Forwards(c, p) ==
    Returned([c EXCEPT !.buf = @ \o p], Len(p), FALSE, p, "buffered")

\* conn.Write, !c.readHeaders and no \r\n\r\n in the buffer yet: p is buffered
WriteBuffering(c, p) ==
    Returned([c EXCEPT !.buf = @ \o p], Len(p), FALSE, <<>>, "buffered")

\* conn.Write, !c.readHeaders and the buffer now holds \r\n\r\n: parse the
\* request, read Content-Length, apply the strategy and flush
WriteHeaders(c, p, t) ==
    LET b == [c EXCEPT !.buf = @ \o p]
        req == newRequest(b.buf)
    IN IF req.err THEN {Returned(b, 0, TRUE, <<>>, "parse")}
       ELSE
       LET clh == getHeader(req, CONTENTLENGTH)
           cls == Split(clh, <<":">>)
       IN IF Len(cls) # 2 THEN {Returned(b, 0, TRUE, <<>>, "missing")}
          ELSE
          LET cl == ParseUint(TrimString(cls[2])) IN
          IF cl = -1 THEN {Returned([b EXCEPT !.remaining = 0], 0, TRUE, <<>>, "invalid")}
          ELSE
          LET h == [b EXCEPT !.remaining = cl, !.readHeaders = TRUE] IN
          { LET data == bytes(out) IN
            IF t.fail
            THEN Returned(h, 0, TRUE, Slice(data, 0, Accepted(t, data)), "flush")
            ELSE Returned([h EXCEPT !.remaining = Sub64(@, Len(req.body))],
                          Len(p), FALSE, data, "flush")
            : out \in apply(c.strategy, req) }

\* conn.Write, c.readHeaders: p goes to the transport
WriteBody(c, p, t) ==
    LET n == Accepted(t, p)
    IN Returned([c EXCEPT !.remaining = Sub64(@, n)], n, t.fail, Slice(p, 0, n), "body")

\* a deferred function that resets only after an error
Deferred_OnlyOnErr(r) ==
    IF r.err THEN [r EXCEPT !.c = reset(@)] ELSE r

\* a deferred function that resets only when the whole request was sent
Deferred_IgnoresErr(r) ==
    IF r.c.remaining = 0 /\ r.c.readHeaders THEN [r EXCEPT !.c = reset(@)] ELSE r

\* the deferred function of conn.Write
Deferred(r) ==
    IF r.err \/ (r.c.remaining = 0 /\ r.c.readHeaders)
    THEN [r EXCEPT !.c = reset(@)] ELSE r

\* conn.Write(p): the set of its outcomes
connWrite(c, p, t) ==
    LET rs == IF ~c.readHeaders
              THEN IF Index(c.buf \o p, CRLFCRLF) = -1
                   THEN {WriteBuffering(c, p)}
                   ELSE WriteHeaders(c, p, t)
              ELSE {WriteBody(c, p, t)}
    IN {Deferred(r) : r \in rs}

----------------------------------------------------------------------------
(* A caller writes up to MaxRequests requests through one adapter, each in  *)
(* Write calls of any sizes, over a transport that may fail.                *)

MaxRequests == 2

ReqHostBody == \* Host: a | Content-Length: 2 | body hi
    <<"G","E","T"," ","/"," ","H","T","T","P","/","1",".","1","\r","\n","H","o","s","t",":"," ","a","\r","\n","C","o","n","t","e","n","t","-","L","e","n","g","t","h",":"," ","2","\r","\n","\r","\n","h","i">>
ReqNoBody == \* Content-Length: 0
    <<"G","E","T"," ","/"," ","H","T","T","P","/","1",".","1","\r","\n","C","o","n","t","e","n","t","-","L","e","n","g","t","h",":"," ","0","\r","\n","\r","\n">>
ReqNoLength == \* Host: a, and no Content-Length
    <<"G","E","T"," ","/"," ","H","T","T","P","/","1",".","1","\r","\n","H","o","s","t",":"," ","a","\r","\n","\r","\n">>
ReqBadLine == \* a start line of two tokens
    <<"G","E","T"," ","/","\r","\n","C","o","n","t","e","n","t","-","L","e","n","g","t","h",":"," ","0","\r","\n","\r","\n">>
ReqBadLength == \* Content-Length: x
    <<"G","E","T"," ","/"," ","H","T","T","P","/","1",".","1","\r","\n","C","o","n","t","e","n","t","-","L","e","n","g","t","h",":"," ","x","\r","\n","\r","\n">>
ReqOtherLength == \* X-Content-Length: 0, and no Content-Length
    <<"G","E","T"," ","/"," ","H","T","T","P","/","1",".","1","\r","\n","X","-","C","o","n","t","e","n","t","-","L","e","n","g","t","h",":"," ","0","\r","\n","\r","\n">>
ReqTwoLengths == \* X-Content-Length: 1 | Content-Length: 2 | body hi
    <<"G","E","T"," ","/"," ","H","T","T","P","/","1",".","1","\r","\n","X","-","C","o","n","t","e","n","t","-","L","e","n","g","t","h",":"," ","1","\r","\n","C","o","n","t","e","n","t","-","L","e","n","g","t","h",":"," ","2","\r","\n","\r","\n","h","i">>
ReqShortLength == \* Content-Length: 1 | body hi
    <<"G","E","T"," ","/"," ","H","T","T","P","/","1",".","1","\r","\n","C","o","n","t","e","n","t","-","L","e","n","g","t","h",":"," ","1","\r","\n","\r","\n","h","i">>

Requests == {ReqHostBody, ReqNoBody, ReqNoLength, ReqBadLine, ReqBadLength,
             ReqOtherLength, ReqTwoLengths, ReqShortLength}

\* [HTTP:host:*]-insert{%20:start:name:1}-|
HostSpaceStrategy ==
    <<[trigger |-> <<"[","H","T","T","P",":","h","o","s","t",":","*","]">>, tree |-> InsSpaceStartName]>>

\* [HTTP:method:*]-changecase{lower}-|[HTTP:path:*]-duplicate(replace{y:value:1},insert{%20:start:value:1}(changecase{upper},))-|
MethodPathStrategy ==
    <<[trigger |-> <<"[","H","T","T","P",":","m","e","t","h","o","d",":","*","]">>, tree |-> LowerCase],
      [trigger |-> <<"[","H","T","T","P",":","p","a","t","h",":","*","]">>, tree |-> DupDeep]>>

ConnStrategies == {ParsedRules(HostSpaceStrategy), ParsedRules(MethodPathStrategy)}

StrategyIdle ==
    /\ sreq = <<>>
    /\ srules = <<>>
    /\ sout = NotApplied

Conn == [strategy |-> strategy, buf |-> buf, remaining |-> remaining,
         readHeaders |-> readHeaders]

\* the header lines of a request's head, and its body
HeadOf(req) == Slice(req, 0, Index(req, CRLFCRLF) + 4)
BodyOf(req) == Slice(req, Index(req, CRLFCRLF) + 4, Len(req))
HeaderLines(req) ==
    LET head == Slice(req, 0, Index(req, CRLFCRLF))
        cut == Index(head, CRLF)
    IN IF cut = -1 THEN <<>> ELSE Lines(Slice(head, cut + 2, Len(head)))

\* the name and the value of a header line: the text before and after its
\* first ':'
LineName(line) == Slice(line, 0, Index(line, <<":">>))
LineValue(line) == Slice(line, Index(line, <<":">>) + 1, Len(line))

\* the values of the Content-Length header lines of a request
ContentLengths(req) ==
    {TrimString(LineValue(HeaderLines(req)[i])) : i \in
        {j \in 1..Len(HeaderLines(req)) :
            /\ Index(HeaderLines(req)[j], <<":">>) # -1
            /\ ToLower(LineName(HeaderLines(req)[j])) = CONTENTLENGTH}}

\* the request declares, once, the Content-Length its body has
Matching(req) ==
    /\ Index(req, CRLFCRLF) # -1
    /\ Cardinality(ContentLengths(req)) = 1
    /\ \A v \in ContentLengths(req) : ParseUint(v) = Len(BodyOf(req))

ConnInit ==
    /\ strategy \in ConnStrategies
    /\ buf = <<>>
    /\ remaining = 0
    /\ readHeaders = FALSE
    /\ wire = <<>>
    /\ cur = <<>>
    /\ pos = 0
    /\ stage = "idle"
    /\ nreq = 0
    /\ clean = TRUE
    /\ flushes = 0
    /\ last = [called |-> FALSE]

\* the caller turns to its next request; the peer has read what was sent
Begin ==
    /\ stage \in {"idle", "complete", "failed"}
    /\ nreq < MaxRequests
    /\ cur' \in Requests
    /\ pos' = 0
    /\ stage' = "writing"
    /\ nreq' = nreq + 1
    /\ clean' = (stage = "idle" \/ (clean /\ stage = "complete" /\ Matching(cur)))
    /\ wire' = <<>>
    /\ flushes' = 0
    /\ last' = [called |-> FALSE]
    /\ UNCHANGED <<strategy, buf, remaining, readHeaders>>

\* the caller hands the next k bytes of cur to conn.Write
Write ==
    /\ stage = "writing"
    /\ \E k \in 0..(Len(cur) - pos), t \in Transports :
        LET p == Slice(cur, pos, pos + k) IN
        \E r \in connWrite(Conn, p, t) :
            /\ buf' = r.c.buf
            /\ remaining' = r.c.remaining
            /\ readHeaders' = r.c.readHeaders
            /\ wire' = wire \o r.wrote
            /\ flushes' = IF r.phase = "flush" THEN flushes + 1 ELSE flushes
            /\ pos' = pos + k
            /\ stage' = IF r.err THEN "failed"
                        ELSE IF pos + k = Len(cur) THEN "complete" ELSE "writing"
            /\ last' = [called |-> TRUE, phase |-> r.phase, err |-> r.err,
                        full |-> (r.n = Len(p)), silent |-> (r.wrote = <<>>),
                        seen |-> IF readHeaders THEN buf ELSE buf \o p]
    /\ UNCHANGED <<strategy, cur, nreq, clean>>

Init == ConnInit /\ StrategyIdle /\ CallIdle
Next == (Begin \/ Write) /\ UNCHANGED <<stratVars, callVars>>
Spec == Init /\ [][Next]_vars

----------------------------------------------------------------------------
(* Properties of the connection adapter, checked under Spec.               *)

\* what the transport is to receive for a request: its head as the strategy
\* mutates it, then its body as it is
ExpectedWire(rules, req) ==
    {bytes(out) \o BodyOf(req) : out \in apply(rules, newRequest(HeadOf(req)))}

\* C1: a request whose Content-Length is its body length, cut into Write
\* calls in any way, reaches the transport as the mutated head followed by
\* the body unmodified; the head is written exactly once, and after the last
\* Write the adapter is in its initial state.
C1_AnyChunkingSendsMutatedRequest ==
    (stage = "complete" /\ nreq = 1 /\ Matching(cur)) =>
        /\ wire \in ExpectedWire(strategy, cur)
        /\ flushes = 1
        /\ readHeaders = FALSE
        /\ remaining = 0

\* C2: while the bytes accumulated since the last reset do not contain
\* \r\n\r\n, a Write writes nothing to the transport and returns (len(p), nil).
C2_BufferingWritesNothing ==
    (last.called /\ Index(last.seen, CRLFCRLF) = -1) =>
        /\ last.silent
        /\ last.full
        /\ ~last.err

\* C2 witness: a Write ended in the middle of the \r\n\r\n separator
C2_SeparatorSplit ==
    /\ last.called
    /\ Index(last.seen, CRLFCRLF) = -1
    /\ Len(last.seen) >= 3
    /\ Slice(last.seen, Len(last.seen) - 3, Len(last.seen)) = <<CR, LF, CR>>

\* C3: when the buffered head is complete but the request cannot be parsed,
\* has no Content-Length header, or has one that is no unsigned integer, the
\* Write returns an error and no byte of the request has reached the transport.
C3_BadRequestIsAnErrorAndUnsent ==
    (/\ last.called
     /\ last.phase \notin {"buffered", "body"}
     /\ \/ newRequest(last.seen).err
        \/ ContentLengths(last.seen) = {}
        \/ \E v \in ContentLengths(last.seen) : ParseUint(v) = -1)
    => (last.err /\ last.silent /\ wire = <<>>)

\* C4: after a Write that returned an error (a parse error, a Content-Length
\* error, or a transport error while flushing the head or forwarding the body)
\* the adapter is reset: buf empty, remaining 0, readHeaders false.
C4_ErrorResetsAdapter ==
    (last.called /\ last.err) =>
        /\ buf = <<>>
        /\ remaining = 0
        /\ readHeaders = FALSE

\* C4 witness: the transport failed while the body was being forwarded, after
\* taking part of it
C4_BodyWriteFailed ==
    /\ last.called
    /\ last.err
    /\ last.phase = "body"
    /\ ~last.silent

\* C5: after a request has been written completely, the next request on the
\* same adapter is again buffered up to its \r\n\r\n, then mutated and flushed
\* once: of requests written one after another, each head is mutated exactly
\* once and none is forwarded unmodified.
C5_NextRequestIsMutatedToo ==
    (nreq >= 2 /\ clean /\ Matching(cur)) =>
        /\ (stage = "writing" /\ Index(Slice(cur, 0, pos), CRLFCRLF) = -1) =>
                wire = <<>>
        /\ stage = "complete" =>
                /\ wire \in ExpectedWire(strategy, cur)
                /\ flushes = 1

----------------------------------------------------------------------------
(* NewInsertAction and InsertAction.Apply on bounded inputs: an insert      *)
(* action is built from its four arguments and applied to one field.        *)

InsertValues == {<<"[", "]">>, <<"%", "2", "0">>, <<"x">>}
InsertLocations == {"start", "end", "middle", "mid", "random"}
InsertNums == {-1, 0, 1, 2}
InsertFields ==
    { [name |-> <<"H","o","s","t">>, value |-> <<" ","a","b">>, isHeader |-> TRUE],
      [name |-> <<"A">>, value |-> <<>>, isHeader |-> TRUE],
      [name |-> <<>>, value |-> <<"G","E","T">>, isHeader |-> FALSE],
      [name |-> <<>>, value |-> <<"/">>, isHeader |-> FALSE] }

InsertInit ==
    /\ call \in {[op |-> "NewInsertAction", v |-> v, l |-> l, c |-> c, n |-> n,
                  field |-> f] :
                    v \in InsertValues, l \in InsertLocations, c \in {"name", "value"},
                    n \in InsertNums, f \in InsertFields}
    /\ ret = NoReturn

\* a, err := NewInsertAction(v, l, c, n, nil)
InsertBuild ==
    /\ ret = NoReturn
    /\ LET a == NewInsertAction(call.v, call.l, call.c, call.n, NilAction)
       IN ret' = [done |-> TRUE, applied |-> FALSE, err |-> (a = ActionError),
                  action |-> a]
    /\ UNCHANGED call

\* got := a.Apply(field)
InsertApply ==
    /\ ret.done /\ ~ret.applied /\ ~ret.err
    /\ \E out \in ActionApply(ret.action, call.field) :
            ret' = [done |-> TRUE, applied |-> TRUE, err |-> FALSE,
                    action |-> ret.action, out |-> out]
    /\ UNCHANGED call

SpecInsertInit == InsertInit /\ ConnIdle /\ StrategyIdle
SpecInsertNext == (InsertBuild \/ InsertApply) /\ UNCHANGED <<connVars, stratVars>>
SpecInsert == SpecInsertInit /\ [][SpecInsertNext]_vars

\* the payload of an insert action: the decoded value repeated num times, num
\* at least 1
Payload(v, n) == Repeat(PathUnescape(v), IF n <= 0 THEN 1 ELSE n)

\* the string an action with component c selects in field f
Selected(f, c) == IF f.isHeader /\ c = "name" THEN f.name ELSE f.value

\* what the insert at location l may make of s with payload P
Inserted(l, P, s) ==
    CASE l = "start" -> {P \o s}
      [] l = "end" -> {s \o P}
      [] l = "middle" ->
            {Slice(s, 0, Len(s) \div 2) \o P \o Slice(s, Len(s) \div 2, Len(s))}
      [] l = "random" ->
            IF Len(s) <= 1 THEN {s}
            ELSE {Slice(s, 0, k) \o P \o Slice(s, k, Len(s)) : k \in 1..(Len(s) - 1)}

\* C11: for every location in {start, end, middle, random} the insert action
\* is built without error, and applied to a field it rewrites the selected
\* string s (the name iff the field is a header and the component is "name",
\* else the value) to P++s, s++P, s[:len/2]++P++s[len/2:], or for random
\* s[:k]++P++s[k:] with 1 <= k <= len(s)-1 (s itself when len(s) <= 1); the
\* other component is unchanged and the result is len(P) longer than s,
\* except for random on len(s) <= 1.
C11_InsertAtEveryLocation ==
    (call.op = "NewInsertAction" /\ ret.done
        /\ call.l \in {"start", "end", "middle", "random"}) =>
        /\ ~ret.err
        /\ ret.applied =>
            LET f == call.field
                P == Payload(call.v, call.n)
                s == Selected(f, call.c)
                onName == f.isHeader /\ call.c = "name"
                g == ret.out[1]
                t == Selected(g, call.c)
            IN /\ Len(ret.out) = 1
               /\ t \in Inserted(call.l, P, s)
               /\ g.isHeader = f.isHeader
               /\ (IF onName THEN g.value = f.value ELSE g.name = f.name)
               /\ (call.l = "random" /\ Len(s) <= 1) \/ Len(t) = Len(s) + Len(P)

----------------------------------------------------------------------------
(* The strategy parser (NewHTTPStrategy, parseRule, parseAction, NewAction) *)
(* and the printers (HTTPStrategy.string, rule.string, trigger.string,      *)
(* Action.String).                                                          *)

\* the words the constructors compare their string arguments with, as bytes;
\* Word(s) is the word spelled s, or "?" for any other string
WordChars ==
    [ upper |-> <<"u","p","p","e","r">>,
      lower |-> <<"l","o","w","e","r">>,
      start |-> <<"s","t","a","r","t">>,
      end |-> <<"e","n","d">>,
      mid |-> <<"m","i","d">>,
      middle |-> <<"m","i","d","d","l","e">>,
      random |-> <<"r","a","n","d","o","m">>,
      name |-> <<"n","a","m","e">>,
      value |-> <<"v","a","l","u","e">> ]
Word(s) ==
    IF \E w \in DOMAIN WordChars : WordChars[w] = s
    THEN CHOOSE w \in DOMAIN WordChars : WordChars[w] = s
    ELSE "?"
Chars(w) == WordChars[w]

CHANGECASE == <<"c","h","a","n","g","e","c","a","s","e">>
INSERT == <<"i","n","s","e","r","t">>
REPLACE == <<"r","e","p","l","a","c","e">>
DUPLICATE == <<"d","u","p","l","i","c","a","t","e">>

\* strings.LastIndex: offset of the last occurrence of sub, or -1
LastIndex(s, sub) ==
    LET hits == {i \in 0..(Len(s) - Len(sub)) : Slice(s, i, i + Len(sub)) = sub}
    IN IF hits = {} THEN -1 ELSE CHOOSE i \in hits : \A j \in hits : i >= j

\* strings.SplitAfter(s, sep) for a non-empty sep
RECURSIVE SplitAfter(_, _)
SplitAfter(s, sep) ==
    LET i == Index(s, sep)
    IN IF i = -1 THEN <<s>>
       ELSE <<Slice(s, 0, i + Len(sep))>> \o SplitAfter(Slice(s, i + Len(sep), Len(s)), sep)

\* strconv.Atoi: an optional sign, then one or more digits
Atoi(s) ==
    LET signed == Len(s) > 0 /\ s[1] \in {"+", "-"}
        digits == IF signed THEN Tail(s) ELSE s
    IN IF Len(digits) > 0 /\ \A i \in 1..Len(digits) : IsDigit(digits[i])
       THEN [ok |-> TRUE,
             n |-> IF signed /\ s[1] = "-" THEN 0 - UintValue(digits) ELSE UintValue(digits)]
       ELSE [ok |-> FALSE, n |-> 0]

\* fmt's %d
RECURSIVE Itoa(_)
Itoa(n) ==
    IF n < 0 THEN <<"-">> \o Itoa(0 - n)
    ELSE IF n < 10 THEN <<Digits[n + 1]>>
    ELSE Itoa(n \div 10) \o <<Digits[(n % 10) + 1]>>

\* NewAction(action, left, right): the action, or ActionError for an error.
\* left and right are NilAction for Go's nil.
NewAction(action, left, right) ==
    LET br == Index(action, <<"{">>)
        open == br # -1
        closed == action[Len(action)] = "}"
        \* the switch over the action's name, with the arguments it was given
        construct(name, args) ==
            IF open /\ ~closed THEN ActionError
            ELSE IF name # DUPLICATE /\ right # NilAction THEN ActionError
            ELSE IF name = CHANGECASE
                 THEN IF Len(args) # 1 THEN ActionError
                      ELSE NewChangecaseAction(Word(args[1]), left)
            ELSE IF name = INSERT
                 THEN IF Len(args) # 4 THEN ActionError
                      ELSE IF ~Atoi(args[4]).ok THEN ActionError
                      ELSE NewInsertAction(args[1], Word(args[2]), Word(args[3]),
                                           Atoi(args[4]).n, left)
            ELSE IF name = REPLACE
                 THEN IF Len(args) # 3 THEN ActionError
                      ELSE IF ~Atoi(args[3]).ok THEN ActionError
                      ELSE NewReplaceAction(args[1], Word(args[2]), Atoi(args[3]).n, left)
            ELSE IF name = DUPLICATE
                 THEN IF Len(args) # 0 THEN ActionError
                      ELSE NewDuplicateAction(left, right)
            ELSE ActionError
    IN construct(IF open THEN Slice(action, 0, br) ELSE action,
                 IF open /\ closed
                 THEN Split(Slice(action, br + 1, Len(action) - 1), <<":">>)
                 ELSE <<>>)

\* splitLeftRight(actionstr): the offset of the ',' at which the counts of
\* '(' and ',' first agree, or -1 when they never do
splitAt(actionstr) ==
    LET count(i, c) == Cardinality({j \in 1..i : actionstr[j] = c})
        hits == {i \in 1..Len(actionstr) : count(i, "(") = count(i, ",")}
    IN IF hits = {} THEN -1 ELSE (CHOOSE i \in hits : \A j \in hits : i <= j) - 1

splitLeftRight(actionstr) ==
    LET i == splitAt(actionstr)
    IN IF i = -1 THEN [err |-> "ErrInvalidRule"]
       ELSE [err |-> "nil", l |-> Slice(actionstr, 1, i),
             r |-> Slice(actionstr, i + 1, Len(actionstr) - 1)]

\* parseAction(actionstr): [err, action], err being "nil" or the sentinel the
\* returned error wraps
RECURSIVE parseAction(_)
parseAction(actionstr) ==
    IF actionstr = <<>> THEN [err |-> "nil", action |-> TerminateAction]
    ELSE LET fp == Index(actionstr, <<"(">>)
             lp == LastIndex(actionstr, <<")">>)
             \* what is returned for the action NewAction built
             built(a) == IF a = ActionError THEN [err |-> "ErrInvalidAction"]
                         ELSE [err |-> "nil", action |-> a]
             \* the branch that parses the two sides lr of the parentheses
             sides(lr) ==
                 IF lr.err # "nil" THEN [err |-> lr.err]
                 ELSE LET left == parseAction(lr.l)
                      IN IF left.err # "nil" THEN left
                         ELSE LET right == parseAction(lr.r)
                              IN IF right.err # "nil" THEN right
                                 ELSE built(NewAction(Slice(actionstr, 0, fp),
                                                      left.action, right.action))
         IN IF lp < fp THEN [err |-> "ErrInvalidRule"]
            ELSE IF fp = -1 THEN built(NewAction(actionstr, NilAction, NilAction))
            ELSE sides(splitLeftRight(Slice(actionstr, fp, lp + 1)))

\* parseRule(r): [err, trigger, tree]
parseRule(r) ==
    LET parts == Split(r, <<"-">>)
        withTree(trig, tree) ==
            IF tree.err # "nil" THEN [err |-> tree.err]
            ELSE [err |-> "nil", trigger |-> trig, tree |-> tree.action]
        withTrigger(trig) ==
            IF trig.err THEN [err |-> "ErrInvalidRule"]
            ELSE withTree(trig, parseAction(parts[2]))
    IN IF Len(parts) # 3 /\ parts[Len(parts)] # <<"|">> THEN [err |-> "ErrInvalidRule"]
       ELSE withTrigger(parseTrigger(parts[1]))

\* the loop of NewHTTPStrategy over the rule texts: the first error, or the rules
RECURSIVE parseRules(_)
parseRules(texts) ==
    IF Len(texts) = 0 THEN [err |-> "nil", rules |-> <<>>]
    ELSE LET parsed(r) ==
                 IF r.err # "nil" THEN [err |-> r.err]
                 ELSE LET rest == parseRules(Tail(texts))
                      IN IF rest.err # "nil" THEN rest
                         ELSE [err |-> "nil",
                               rules |-> <<[trigger |-> r.trigger, tree |-> r.tree]>>
                                             \o rest.rules]
         IN parsed(parseRule(Head(texts)))

\* NewHTTPStrategy(strategystr): [err, rules]; "errors.New" is an error that
\* wraps no sentinel
NewHTTPStrategy(strategystr) ==
    LET parts == SplitAfter(strategystr, <<"|">>)
    IN IF parts[Len(parts)] # <<>> THEN [err |-> "ErrInvalidRule"]
       ELSE IF parts[1] = <<>> THEN [err |-> "errors.New"]
       ELSE parseRules(Slice(parts, 0, Len(parts) - 1))

\* Action.String of every action kind, with nextToString
RECURSIVE ActionString(_)
nextToString(next) ==
    IF next = TerminateAction THEN <<>>
    ELSE <<"(">> \o ActionString(next) \o <<",", ")">>

ActionString(a) ==
    CASE a.kind = "terminate" -> <<>>
      [] a.kind = "changecase" ->
            CHANGECASE \o <<"{">> \o Chars(a.Case) \o <<"}">> \o nextToString(a.Next)
      [] a.kind = "insert" ->
            INSERT \o <<"{">> \o a.Value \o <<":">> \o Chars(a.Location) \o <<":">>
                \o Chars(a.Component) \o <<":">> \o Itoa(a.Num) \o <<"}">>
                \o nextToString(a.Next)
      [] a.kind = "replace" ->
            REPLACE \o <<"{">> \o a.Value \o <<":">> \o Chars(a.Component) \o <<":">>
                \o Itoa(a.Num) \o <<"}">> \o nextToString(a.Next)
      [] a.kind = "duplicate" ->
            DUPLICATE \o <<"(">> \o ActionString(a.LeftAction) \o <<",", " ">>
                \o ActionString(a.RightAction) \o <<")">>

\* trigger.string
triggerString(t) ==
    <<"[">> \o ToUpper(t.proto) \o <<":">> \o t.targetField \o <<":">> \o t.matchStr
        \o <<"]">>

\* rule.string
ruleString(r) == triggerString(r.trigger) \o <<"-">> \o ActionString(r.tree) \o <<"-", "|">>

\* HTTPStrategy.string
RECURSIVE strategyString(_)
strategyString(rules) ==
    IF Len(rules) = 0 THEN <<>>
    ELSE ruleString(Head(rules)) \o strategyString(Tail(rules))

----------------------------------------------------------------------------
(* The parser and the printers on bounded inputs: a strategy string or an   *)
(* action string is parsed, and what was parsed is printed.                 *)

TriggerTexts ==
    { <<"[","H","T","T","P",":","h","o","s","t",":","*","]">>,
      <<"[","h","t","t","p",":","p","a","t","h",":","*","]">>,
      <<"[","H","T","T","P",":","H","o","s","t",":"," ","a","]">>,
      <<"[","H","T","T","P",":","m","e","t","h","o","d",":","G","E","T","]">>,
      <<"[","i","c","m","p",":","p","a","t","h",":","*","]">>,
      <<"[","h","t","t","p",":","*","]">>,
      <<"[","D","N","S",":","a",":","b","]">> }

ActionTexts ==
    { <<>>,
      <<"c","h","a","n","g","e","c","a","s","e","{","u","p","p","e","r","}">>,
      <<"c","h","a","n","g","e","c","a","s","e","{","U","p","p","e","r","}">>,
      <<"i","n","s","e","r","t","{","%","2","0",":","s","t","a","r","t",":","n","a","m","e",":","1","}">>,
      <<"i","n","s","e","r","t","{","x",":","e","n","d",":","v","a","l","u","e",":","0","}">>,
      <<"i","n","s","e","r","t","{","x",":","m","i","d",":","v","a","l","u","e",":","2","}">>,
      <<"i","n","s","e","r","t","{","x",":","m","i","d","d","l","e",":","v","a","l","u","e",":","1","}">>,
      <<"i","n","s","e","r","t","{","x",":","s","t","a","r","t",":","n","a","m","e","}">>,
      <<"i","n","s","e","r","t","{","x",":","e","n","d",":","v","a","l","u","e",":","a","}">>,
      <<"i","n","s","e","r","t","{","%","z","z",":","s","t","a","r","t",":","n","a","m","e",":","1","}">>,
      <<"r","e","p","l","a","c","e","{","y",":","v","a","l","u","e",":","1","}">>,
      <<"r","e","p","l","a","c","e","{","y",":","n","a","m","e",":","0","3","}">>,
      <<"r","e","p","l","a","c","e","{","y",":","v","a","l","u","e","}">>,
      <<"r","e","p","l","a","c","e","{","y",":","v","a","l","u","e",":","-","1","}">>,
      <<"d","u","p","l","i","c","a","t","e","(","c","h","a","n","g","e","c","a","s","e","{","u","p","p","e","r","}",",","c","h","a","n","g","e","c","a","s","e","{","l","o","w","e","r","}",")">>,
      <<"d","u","p","l","i","c","a","t","e","(",",","c","h","a","n","g","e","c","a","s","e","{","u","p","p","e","r","}",")">>,
      <<"d","u","p","l","i","c","a","t","e">>,
      <<"d","u","p","l","i","c","a","t","e","(","d","u","p","l","i","c","a","t","e","(",",",")",",","r","e","p","l","a","c","e","{","y",":","v","a","l","u","e",":","1","}",")">>,
      <<"d","u","p","l","i","c","a","t","e","{","a","r","g","}">>,
      <<"c","h","a","n","g","e","c","a","s","e","{","u","p","p","e","r","}","(","i","n","s","e","r","t","{","x",":","e","n","d",":","v","a","l","u","e",":","1","}",",",")">>,
      <<"c","h","a","n","g","e","c","a","s","e","{","u","p","p","e","r","}","(",",">>,
      <<"c","h","a","n","g","e","c","a","s","e","{","u","p","p","e","r">>,
      <<"u","n","k","n","o","w","n">>,
      <<"(","c","h","a","n","g","e","c","a","s","e","{","u","p","p","e","r","}",")">> }

\* how a rule text ends after its action: "-|" is the grammar's ending
RuleEndings ==
    { <<"-", "|">>, <<"|">>, <<>>, <<"-", "x", "-", "|">>, <<"-", "x", "|">>, <<"-">> }

RuleTexts ==
    {t \o <<"-">> \o a \o <<"-", "|">> : t \in TriggerTexts, a \in ActionTexts}

StrategyTexts ==
    RuleTexts
    \cup {<<>>, <<"|">>, <<"-", "|">>}
    \cup {<<"[","H","T","T","P",":","h","o","s","t",":","*","]">> \o e : e \in RuleEndings \cup {<<"-", "-", "|">>}}
    \cup {<<"[","H","T","T","P",":","h","o","s","t",":","*","]">> \o <<"-">> \o <<"c","h","a","n","g","e","c","a","s","e","{","u","p","p","e","r","}">> \o e : e \in RuleEndings}
    \cup {<<"[","H","T","T","P",":","h","o","s","t",":","*","]">> \o <<"-">> \o <<"c","h","a","n","g","e","c","a","s","e","{","u","p","p","e","r","}">> \o <<"-", "|">> \o r : r \in RuleTexts}

\* action strings with a successor list, X(Y,Z)
ChangecaseUpperText == <<"c","h","a","n","g","e","c","a","s","e","{","u","p","p","e","r","}">>
ChangecaseLowerText == <<"c","h","a","n","g","e","c","a","s","e","{","l","o","w","e","r","}">>
InsertEndText == <<"i","n","s","e","r","t","{","x",":","e","n","d",":","v","a","l","u","e",":","1","}">>
ReplaceValueText == <<"r","e","p","l","a","c","e","{","y",":","v","a","l","u","e",":","1","}">>

\* the actions X of the chains, and what stands on either side of the comma
ChainHeads == {ChangecaseUpperText, InsertEndText, ReplaceValueText, DUPLICATE}
ChainSides == {<<>>, ChangecaseLowerText, InsertEndText}

ChainText(x, y, z) == x \o <<"(">> \o y \o <<",">> \o z \o <<")">>

ChainTexts == {ChainText(x, y, z) : x \in ChainHeads, y \in ChainSides, z \in ChainSides}

ParseInit ==
    /\ call \in {[op |-> "NewHTTPStrategy", str |-> x] : x \in StrategyTexts}
            \cup {[op |-> "parseAction", str |-> x] : x \in ActionTexts \cup ChainTexts}
    /\ ret = NoReturn

\* s, err := NewHTTPStrategy(str)
ParseStrategy ==
    /\ call.op = "NewHTTPStrategy" /\ ret = NoReturn
    /\ LET returned(p) ==
               ret' = [done |-> TRUE, printed |-> FALSE, err |-> p.err,
                       value |-> IF p.err = "nil" THEN p.rules ELSE <<>>, str |-> <<>>,
                       again |-> FALSE, err2 |-> "nil", str2 |-> <<>>]
       IN returned(NewHTTPStrategy(call.str))
    /\ UNCHANGED call

\* a, err := parseAction(str)
ParseAction ==
    /\ call.op = "parseAction" /\ ret = NoReturn
    /\ LET returned(p) ==
               ret' = [done |-> TRUE, printed |-> FALSE, err |-> p.err,
                       value |-> IF p.err = "nil" THEN p.action ELSE NilAction, str |-> <<>>,
                       again |-> FALSE, err2 |-> "nil", str2 |-> <<>>]
       IN returned(parseAction(call.str))
    /\ UNCHANGED call

\* s.string(), a.String()
PrintParsed ==
    /\ ret.done /\ ~ret.printed /\ ret.err = "nil"
    /\ ret' = [ret EXCEPT !.printed = TRUE,
                          !.str = IF call.op = "NewHTTPStrategy"
                                  THEN strategyString(ret.value)
                                  ELSE ActionString(ret.value)]
    /\ UNCHANGED call

\* s2, err2 := NewHTTPStrategy(s.string()); s2.string(), and the same with
\* parseAction and Action.String: what was printed is parsed and printed again
ParsePrinted ==
    /\ ret.done /\ ret.printed /\ ~ret.again
    /\ LET printedAgain(e, text) ==
               ret' = [ret EXCEPT !.again = TRUE, !.err2 = e, !.str2 = text]
           strategyAgain(p) ==
               printedAgain(p.err, IF p.err = "nil" THEN strategyString(p.rules) ELSE <<>>)
           actionAgain(p) ==
               printedAgain(p.err, IF p.err = "nil" THEN ActionString(p.action) ELSE <<>>)
       IN IF call.op = "NewHTTPStrategy" THEN strategyAgain(NewHTTPStrategy(ret.str))
          ELSE actionAgain(parseAction(ret.str))
    /\ UNCHANGED call

SpecParseInit == ParseInit /\ ConnIdle /\ StrategyIdle
SpecParseNext ==
    (ParseStrategy \/ ParseAction \/ PrintParsed \/ ParsePrinted)
        /\ UNCHANGED <<connVars, stratVars>>
SpecParse == SpecParseInit /\ [][SpecParseNext]_vars

----------------------------------------------------------------------------
(* Properties of the parser and the printers, checked under SpecParse.      *)

\* C12: for every strategy string the strategy parser accepts, the parsed
\* strategy's string form is that string, character for character; and for
\* every action string parseAction accepts, the parsed action's string form
\* is that action string.
C12_ParseThenPrintIsIdentity ==
    (ret.done /\ ret.err = "nil" /\ ret.printed) => ret.str = call.str

\* a rule text of the form <trigger>-<action>-|: exactly three parts between
\* '-', the last of them "|"
RuleForm(r) ==
    LET parts == Split(r, <<"-">>)
    IN Len(parts) = 3 /\ parts[3] = <<"|">>

\* a non-empty strategy string all of whose rules have that form
StrategyForm(str) ==
    LET parts == SplitAfter(str, <<"|">>)
    IN /\ str # <<>>
       /\ parts[Len(parts)] = <<>>
       /\ \A i \in 1..(Len(parts) - 1) : RuleForm(parts[i])

\* C13: the strategy constructor rejects, with an error that is
\* ErrInvalidRule, every strategy string that is empty or has a rule that is
\* not of the form <trigger>-<action>-| (so every string not ending in "-|").
C13_MalformedStrategyIsInvalidRule ==
    (call.op = "NewHTTPStrategy" /\ ret.done /\ ~StrategyForm(call.str)) =>
        ret.err = "ErrInvalidRule"

----------------------------------------------------------------------------
(* The request normalizer (unnamed/part_002; an older version is in        *)
(* normalize.go).  A function of the code that can panic returns err =     *)
(* "panic"; any returned error is err = "error".                           *)

HTAB == "\t"
FF == "\f"
VT == "<VT>"     \* the byte 0x0b
SOH == "<SOH>"   \* the byte 0x01
DEL == "<DEL>"   \* the byte 0x7f
NUL == "<NUL>"   \* the byte 0x00, what make([]byte, n) is filled with
GRAVE == "<GRAVE>"   \* the byte 0x60

Alpha == {UpperChars[i] : i \in 1..26} \cup {LowerChars[i] : i \in 1..26}
Digit == {Digits[i] : i \in 1..10}

\* the control bytes the model's requests are written with
Ctrl == {NUL, SOH, HTAB, LF, VT, FF, CR, DEL}

\* the printable bytes of ASCII
Printable ==
    Alpha \cup Digit \cup
    {" ", "!", "\"", "#", "$", "%", "&", "'", "(", ")", "*", "+", ",", "-", ".",
     "/", ":", ";", "<", "=", ">", "?", "@", "[", "\\", "]", "^", "_", GRAVE, "{",
     "|", "}", "~"}

Byte == Printable \cup Ctrl

\* bytes.TrimSpace on ASCII input: strips leading and trailing \t \n \v \f \r
\* and space
isSpace(b) == b \in {HTAB, LF, VT, FF, CR, SP}

RECURSIVE TrimSpaceLeft(_)
TrimSpaceLeft(s) ==
    IF Len(s) > 0 /\ isSpace(s[1]) THEN TrimSpaceLeft(Tail(s)) ELSE s

RECURSIVE TrimSpaceRight(_)
TrimSpaceRight(s) ==
    IF Len(s) > 0 /\ isSpace(s[Len(s)])
    THEN TrimSpaceRight(Slice(s, 0, Len(s) - 1)) ELSE s

TrimSpace(s) == TrimSpaceRight(TrimSpaceLeft(s))

\* the token tables, as the sets of bytes whose entry is true
validTokenTable ==
    Alpha \cup Digit \cup
    {"!", "#", "$", "%", "&", "'", "*", "+", "-", ".", "|", "~", "^", "_", GRAVE}

versionTokens == {"H", "T", "P", "h", "t", "p", "/", "1", ".", "0"}

hostTokenTable ==
    Alpha \cup Digit \cup
    {":", "!", "$", "&", "'", "(", ")", "*", "+", ",", ";", "=", "-", ".", "_", "~"}

isCtrl(b) == b \in Ctrl

\* the bytes validHeaderValueToken accepts
validHeaderValueToken == {b \in Byte : ~isCtrl(b) \/ b = HTAB}

\* the bytes findPath keeps in a component
pathTokens == validTokenTable \cup {"/", ":"}

\* clean(s, fn) for the fn that accepts the bytes of valid
cleanBytes(s, valid) == SelectSeq(s, LAMBDA b : b \in valid)

isValidMethod(method) ==
    method \in {<<"G","E","T">>, <<"H","E","A","D">>, <<"P","O","S","T">>,
                <<"P","U","T">>, <<"D","E","L","E","T","E">>,
                <<"C","O","N","N","E","C","T">>,
                <<"O","P","T","I","O","N","S">>, <<"T","R","A","C","E">>}

isVersion1x(v) ==
    v \in {HTTP10, HTTP11, <<"h","t","t","p","/","1",".","0">>,
           <<"h","t","t","p","/","1",".","1">>}

\* isValidPath(p) for a non-empty p; on an empty p it indexes p[0] and panics
isValidPath(p) ==
    IF p[1] = "/" THEN TRUE
    ELSE IF Len(p) > 8 /\ p[1] \in {"H", "h"}
    THEN LET p0 == ToLower(Slice(p, 0, 8))
         IN \/ p0 = <<"h","t","t","p",":","/","/">>
            \/ p0 = <<"h","t","t","p","s",":","/","/">>
    ELSE p = <<"*">>

\* the second loop of findPath, over the cleaned components
RECURSIVE findPathLoose(_)
findPathLoose(cleanedComps) ==
    IF Len(cleanedComps) = 0 THEN [err |-> "nil", path |-> <<>>]
    ELSE LET comp == ToLower(cleanedComps[1])
             idx == Index(comp, <<"h","t","t","p">>)
             slash == Index(comp, <<"/">>)
         IN IF idx # -1 /\ idx + 4 >= Len(comp)
            THEN [err |-> "panic", path |-> <<>>]      \* comp[idx+4]
            ELSE IF /\ idx # -1
                    /\ LET j == IF comp[idx + 5] = "s" THEN 5 ELSE 4
                       IN Slice(comp, idx + j, idx + j + 3) = <<":","/","/">>
            THEN [err |-> "nil", path |-> Slice(comp, idx, Len(comp))]
            ELSE IF slash # -1
            THEN [err |-> "nil", path |-> Slice(comp, slash, Len(comp))]
            ELSE IF Index(comp, <<"*">>) # -1
            THEN [err |-> "nil", path |-> <<"*">>]
            ELSE findPathLoose(Tail(cleanedComps))

\* findPath(components)
findPath(components) ==
    LET cleaned == [i \in 1..Len(components) |-> cleanBytes(components[i], pathTokens)]
        \* the first loop ends at the first component it reaches isValidPath
        \* with: stops holds the components that end it
        firstLoop(stops) ==
            LET first == CHOOSE i \in stops : \A j \in stops : i <= j
            IN IF stops = {} THEN findPathLoose(cleaned)
               ELSE IF cleaned[first] = <<>> THEN [err |-> "panic", path |-> <<>>]
               ELSE [err |-> "nil", path |-> cleaned[first]]
    IN firstLoop({i \in 1..Len(components) :
                     cleaned[i] = <<>> \/ isValidPath(cleaned[i])})

\* the components loop of parseRequestLine
RECURSIVE components(_)
components(line0) ==
    IF Len(line0) = 0 THEN <<>>
    ELSE LET line == TrimSpace(line0)
             i == Index(line, <<SP>>)
             sp == IF i = -1 THEN Len(line) ELSE i
             comp == TrimSpace(Slice(line, 0, sp))
         IN (IF Len(comp) > 0 THEN <<comp>> ELSE <<>>)
                \o components(Slice(line, sp, Len(line)))

NoRequestLine(err) == [err |-> err, method |-> <<>>, path |-> <<>>, version |-> <<>>]

\* parseRequestLine(line): method and version are empty when none was found
parseRequestLine(line) ==
    LET parse(comps) ==
            LET n == Len(comps)
                ms == {i \in 0..(n - 3) : isValidMethod(cleanBytes(comps[i + 1], Alpha))}
                vs == {i \in 2..(n - 1) :
                          isVersion1x(cleanBytes(comps[i + 1], versionTokens))}
                mIdx == IF ms = {} THEN 0 ELSE CHOOSE i \in ms : \A j \in ms : i <= j
                vIdx == IF vs = {} THEN n - 1 ELSE CHOOSE i \in vs : \A j \in vs : i >= j
                withPath(p) ==
                    IF p.err # "nil" THEN NoRequestLine(p.err)
                    ELSE [err |-> "nil",
                          method |-> IF ms = {} THEN <<>>
                                     ELSE cleanBytes(comps[mIdx + 1], Alpha),
                          path |-> IF p.path = <<>> THEN <<"/">> ELSE p.path,
                          version |-> IF vs = {} THEN <<>>
                                      ELSE cleanBytes(comps[vIdx + 1], versionTokens)]
            IN IF n < 3 THEN NoRequestLine("error")
               ELSE IF mIdx + 1 > vIdx
               THEN NoRequestLine("panic")                  \* components[mIdx+1:vIdx]
               ELSE withPath(findPath(Slice(comps, mIdx + 1, vIdx)))
    IN parse(components(line))

\* textproto.CanonicalMIMEHeaderKey
RECURSIVE canonicalFrom(_, _)
canonicalFrom(s, upper) ==
    IF Len(s) = 0 THEN <<>>
    ELSE <<IF upper THEN ToUpperChar(s[1]) ELSE ToLowerChar(s[1])>>
             \o canonicalFrom(Tail(s), s[1] = "-")

CanonicalMIMEHeaderKey(s) ==
    IF \A i \in 1..Len(s) : s[i] \in validTokenTable THEN canonicalFrom(s, TRUE) ELSE s

HOST == <<"H","o","s","t">>

\* cleanHeader(h)
cleanHeader(h) ==
    LET c == Index(h, <<":">>)
        name == cleanBytes(Slice(h, 0, c), validTokenTable)
        value0 == Slice(h, c + 1, Len(h))
        hasSepOSP == value0[1] = SP
        value1 == IF hasSepOSP THEN Tail(value0) ELSE value0
        cname == CanonicalMIMEHeaderKey(name)
        value == IF cname = HOST THEN cleanBytes(value1, hostTokenTable)
                 ELSE cleanBytes(TrimSpace(value1), validHeaderValueToken)
    IN IF c = -1 THEN [err |-> "error", h |-> <<>>]
       ELSE IF Len(value0) = 0 THEN [err |-> "panic", h |-> <<>>]   \* value[0]
       ELSE [err |-> "nil",
             h |-> cname \o <<":">> \o (IF hasSepOSP THEN <<SP>> ELSE <<>>) \o value]

\* the tokens a bufio.Scanner with the split function scanCRLF returns
RECURSIVE scanCRLF(_)
scanCRLF(data) ==
    LET i == Index(data, CRLF)
    IN IF Len(data) = 0 THEN <<>>
       ELSE IF i >= 0 THEN <<Slice(data, 0, i)>> \o scanCRLF(Slice(data, i + 2, Len(data)))
       ELSE <<data>>

HasPrefix(s, prefix) == Len(s) >= Len(prefix) /\ Slice(s, 0, Len(prefix)) = prefix

\* a header loop that keeps every header
keepHeaders_KeepsEveryHost(hs, hostFnd) == hs

\* the header loop of NormalizeRequest over cleaned headers: a header that
\* starts with "Host:" is skipped once one was seen
RECURSIVE keepHeaders(_, _)
keepHeaders(hs, hostFnd) ==
    IF Len(hs) = 0 THEN <<>>
    ELSE LET isHost == HasPrefix(hs[1], HOST \o <<":">>)
         IN (IF isHost /\ hostFnd THEN <<>> ELSE <<hs[1]>>)
                \o keepHeaders(Tail(hs), hostFnd \/ isHost)

\* parseHeaders(headers) of http.go: the cleaned headers it keeps, or the
\* error of the first header cleanHeader rejects; cleanHeader there is the
\* same function
RECURSIVE parseHeadersFrom(_, _)
parseHeadersFrom(headers, hostFnd) ==
    IF Len(headers) = 0 THEN [err |-> "nil", h |-> <<>>]
    ELSE LET keep(header) ==
                 LET isHost == \/ HasPrefix(header.h, HOST \o <<":">>)
                               \/ HasPrefix(header.h, <<"h","o","s","t",":">>)
                     rest == parseHeadersFrom(Tail(headers), hostFnd \/ isHost)
                 IN IF header.err # "nil" THEN [err |-> header.err, h |-> <<>>]
                    ELSE IF rest.err # "nil" THEN rest
                    ELSE [err |-> "nil",
                          h |-> (IF isHost /\ hostFnd THEN <<>> ELSE <<header.h>>)
                                    \o rest.h]
         IN keep(cleanHeader(headers[1]))

parseHeaders(headers) == parseHeadersFrom(headers, FALSE)

\* copy(dst[off:], src)
copy(dst, off, src) ==
    [i \in 1..Len(dst) |->
        IF i > off /\ i <= off + Len(src) THEN src[i - off] ELSE dst[i]]

\* make([]byte, n)
make(n) == [i \in 1..n |-> NUL]

\* a default method that does not look at the body
defaultMethod_AlwaysGet(body) == <<"G","E","T">>

\* the method NormalizeRequest fills in when parseRequestLine found none
defaultMethod(body) ==
    IF Len(body) > 0 THEN <<"P","O","S","T">> ELSE <<"G","E","T">>

NormalizeFailed(err) == [err |-> err, out |-> <<>>, method |-> <<>>, path |-> <<>>,
                         version |-> <<>>, headers |-> <<>>, body |-> <<>>]

\* what NormalizeRequest parses out of req: the request line's parts with
\* the defaults filled in, the cleaned headers it keeps, and the body
normalizeParts(req) ==
    LET idx == Index(req, CRLFCRLF)
        head == Slice(req, 0, idx + 2)
        body == Slice(req, idx + 4, Len(req))
        lines == scanCRLF(head)
        \* rl is the parsed request line, cleaned the cleaned header lines
        parts(rl, cleaned) ==
            LET bad == {i \in 1..Len(cleaned) : cleaned[i].err # "nil"}
            IN IF rl.err # "nil" THEN NormalizeFailed(rl.err)
               ELSE IF bad # {}
               THEN NormalizeFailed(cleaned[CHOOSE i \in bad : \A j \in bad : i <= j].err)
               ELSE [err |-> "nil", out |-> <<>>,
                     method |-> IF rl.method # <<>> THEN rl.method ELSE defaultMethod(body),
                     path |-> rl.path,
                     version |-> IF rl.version # <<>> THEN rl.version ELSE HTTP11,
                     headers |-> keepHeaders([i \in 1..Len(cleaned) |-> cleaned[i].h],
                                             FALSE),
                     body |-> body]
    IN IF idx = -1 THEN NormalizeFailed("error")
       ELSE parts(parseRequestLine(lines[1]),
                  [i \in 1..(Len(lines) - 1) |-> cleanHeader(lines[i + 1])])

\* NormalizeRequest(req) of unnamed/part_002
NormalizeRequest(req) ==
    LET rebuild(p) ==
            LET rl == p.method \o <<SP>> \o p.path \o <<SP>> \o p.version
                newHead == Join(<<rl>> \o p.headers, CRLF)
                newReq == make(Len(newHead) + 4 + Len(p.body))
            IN IF p.err # "nil" THEN p
               ELSE [p EXCEPT !.out = copy(copy(copy(newReq, 0, newHead),
                                                Len(newHead), CRLFCRLF),
                                           Len(newHead) + 4, p.body)]
    IN rebuild(normalizeParts(req))

----------------------------------------------------------------------------
(* The older normalizer of normalize.go.  Its tables, isValidMethod,       *)
(* isValidPath and isVersion1x are those above; its clean overwrites the   *)
(* slice it is given, it reads lines with the default bufio.ScanLines, it  *)
(* does not canonicalize header names and it keeps every Host header.  It  *)
(* keeps the scanner's tokens without copying them, which is sound for a   *)
(* head that fits the scanner's first read of 4096 bytes, as every head of *)
(* the model does.                                                         *)

\* what the slice s holds after clean(s, fn) of normalize.go ran over it:
\* the kept bytes, then what was behind them before
cleanInPlace(s, valid) ==
    LET c == cleanBytes(s, valid) IN c \o Slice(s, Len(c), Len(s))

\* bufio.ScanLines over data: lines end at \n, one \r before it is dropped
dropCR(data) ==
    IF Len(data) > 0 /\ data[Len(data)] = CR THEN Slice(data, 0, Len(data) - 1) ELSE data

RECURSIVE ScanLines(_)
ScanLines(data) ==
    LET i == Index(data, <<LF>>)
    IN IF Len(data) = 0 THEN <<>>
       ELSE IF i >= 0
       THEN <<dropCR(Slice(data, 0, i))>> \o ScanLines(Slice(data, i + 1, Len(data)))
       ELSE <<dropCR(data)>>

\* parseRequestLine(line) of normalize.go
parseRequestLine_older(line) ==
    LET methodLoop(comps0) ==
          LET n == Len(comps0)
              ms == {i \in 0..(n - 3) : isValidMethod(cleanBytes(comps0[i + 1], Alpha))}
              mIdx == IF ms = {} THEN 0 ELSE CHOOSE i \in ms : \A j \in ms : i <= j
              \* the method loop cleaned the components up to mLast
              mLast == IF ms = {} THEN n - 3 ELSE mIdx
              versionLoop(comps1) ==
                LET vs == {i \in 2..(n - 1) :
                              isVersion1x(cleanBytes(comps1[i + 1], versionTokens))}
                    vIdx == IF vs = {} THEN n - 1
                            ELSE CHOOSE i \in vs : \A j \in vs : i >= j
                    \* the version loop cleaned the components from vFirst on
                    vFirst == IF vs = {} THEN 2 ELSE vIdx
                    pathLoop(comps2) ==
                      LET cand == [i \in 1..n |-> cleanBytes(comps2[i], pathTokens)]
                          stops == {i \in (mIdx + 1)..(vIdx - 1) :
                                        cand[i + 1] = <<>> \/ isValidPath(cand[i + 1])}
                          first == CHOOSE i \in stops : \A j \in stops : i <= j
                      IN IF n < 3 THEN NoRequestLine("error")
                         ELSE IF stops # {} /\ cand[first + 1] = <<>>
                         THEN NoRequestLine("panic")         \* p[0] in isValidPath
                         ELSE [err |-> "nil",
                               method |-> IF ms = {} THEN <<>>
                                          ELSE cleanBytes(comps0[mIdx + 1], Alpha),
                               path |-> IF stops # {} THEN cand[first + 1]
                                        ELSE IF mIdx + 1 < vIdx THEN cand[mIdx + 2]
                                        ELSE comps2[mIdx + 2],
                               version |-> IF vs = {} THEN <<>>
                                           ELSE cleanBytes(comps1[vIdx + 1], versionTokens)]
                IN pathLoop([i \in 1..n |->
                               IF i - 1 >= vFirst
                               THEN cleanInPlace(comps1[i], versionTokens)
                               ELSE comps1[i]])
          IN versionLoop([i \in 1..n |->
                            IF i - 1 <= mLast THEN cleanInPlace(comps0[i], Alpha)
                            ELSE comps0[i]])
    IN methodLoop(components(line))

\* cleanHeader(h) of normalize.go
cleanHeader_older(h) ==
    LET c == Index(h, <<":">>)
        name == cleanBytes(Slice(h, 0, c), validTokenTable)
        value0 == Slice(h, c + 1, Len(h))
        hasSepOSP == value0[1] = SP
        value1 == IF hasSepOSP THEN Tail(value0) ELSE value0
        value == IF name = HOST THEN cleanBytes(value1, hostTokenTable)
                 ELSE cleanBytes(TrimSpace(value1), validHeaderValueToken)
    IN IF c = -1 THEN [err |-> "error", h |-> <<>>]
       ELSE IF Len(value0) = 0 THEN [err |-> "panic", h |-> <<>>]   \* value[0]
       ELSE [err |-> "nil",
             h |-> name \o <<":">> \o (IF hasSepOSP THEN <<SP>> ELSE <<>>) \o value]

\* NormalizeRequest(req) of normalize.go
NormalizeRequest_older(req) ==
    LET idx == Index(req, CRLFCRLF)
        head == Slice(req, 0, idx + 2)
        body == Slice(req, idx + 4, Len(req))
        lines == ScanLines(head)
        \* rl is the parsed request line, cleaned the cleaned header lines
        rebuild(rl, cleaned) ==
            LET bad == {i \in 1..Len(cleaned) : cleaned[i].err # "nil"}
                method == IF rl.method # <<>> THEN rl.method ELSE defaultMethod(body)
                version == IF rl.version # <<>> THEN rl.version ELSE HTTP11
                headers == [i \in 1..Len(cleaned) |-> cleaned[i].h]
                newHead == Join(<<method \o <<SP>> \o rl.path \o <<SP>> \o version>>
                                    \o headers, CRLF)
                newReq == make(Len(newHead) + 4 + Len(body))
            IN IF rl.err # "nil" THEN NormalizeFailed(rl.err)
               ELSE IF bad # {}
               THEN NormalizeFailed(cleaned[CHOOSE i \in bad : \A j \in bad : i <= j].err)
               ELSE [err |-> "nil",
                     out |-> copy(copy(copy(newReq, 0, newHead), Len(newHead), CRLFCRLF),
                                  Len(newHead), body),
                     method |-> method, path |-> rl.path, version |-> version,
                     headers |-> headers, body |-> body]
    IN IF idx = -1 THEN NormalizeFailed("error")
       ELSE rebuild(parseRequestLine_older(lines[1]),
                    [i \in 1..(Len(lines) - 1) |-> cleanHeader_older(lines[i + 1])])

----------------------------------------------------------------------------
(* The normalizer called on its own: SpecNormalize.  A request is a        *)
(* request line, header lines, and a body, put together with CRLF.         *)

NormLines ==
    { <<"G","E","T"," ","/"," ","H","T","T","P","/","1",".","1">>,   \* canonical
      <<"P","O","S","T"," ","/","a"," ","H","T","T","P","/","1",".","0">>,   \* canonical
      <<"g","e","t"," ","/","a"," ","h","t","t","p","/","1",".","1">>,   \* lower-case method and version
      <<"G","E","T"," "," ","\t","/","a"," "," "," ","H","T","T","P","/","1",".","1"," ">>,   \* extra whitespace
      <<"G","(","E","T"," ","/","a","?","b"," ","H","T","<","T","P","/","1",".","1">>,   \* bytes that are cleaned away
      <<"G","E","T"," ","x"," ","y">>,   \* no version and no path
      <<"/","a"," ","b"," ","c">>,   \* no method and no version
      <<"x"," ","y"," ","z">>,   \* no method, no path and no version
      <<"G","E","T"," ","/","a">>,   \* two components
      <<"G","E","T"," ","h","t","t","p",":","/","/","A",".","b","/","c"," ","H","T","T","P","/","1",".","1">>,   \* absolute form, http
      <<"G","E","T"," ","H","T","T","P","S",":","/","/","a",".","b","c","/","d"," ","H","T","T","P","/","1",".","1">>,   \* absolute form, https
      <<"G","E","T"," ","h","t","t","p"," ","H","T","T","P","/","1",".","1">>,   \* a component that ends in http
      <<"G","E","T"," ","("," ","/","a"," ","H","T","T","P","/","1",".","1">>,   \* a component that is cleaned to nothing
      <<"a"," ","b"," ","H","T","T","P","/","1",".","1"," ","G","E","T"," ","c"," ","d">>,   \* a version before the method
      <<"G","E","T"," ","*"," ","H","T","T","P","/","1",".","1">>,   \* asterisk form
      <<"G","E","T"," ","a","/","b"," ","H","T","T","P","/","1",".","1">>,   \* a path after other bytes
      <<"x"," ","G","E","T"," ","/","a"," ","H","T","T","P","/","1",".","1"," ","y">>}   \* tokens around the request line

NormHeaders ==
    { <<>>,   \* no headers
      <<<<"H","o","s","t",":"," ","a",".","b">>>>,
      <<<<"h","o","s","t",":","a",".","b">>, <<"X",":"," ","1">>, <<"H","O","S","T",":"," ","c">>, <<"Y",":"," ","2">>>>,   \* Host twice, in other capitalisations
      <<<<"H","o","s","t",":"," ","a">>, <<"H","o","s","t","x",":"," ","b">>, <<"H","o","s","t",":"," ","c">>>>,   \* a name that starts with Host
      <<<<"H","o"," ","s","t"," ",":"," ","a"," ","b",":","8">>>>,   \* bytes cleaned out of a Host header
      <<<<"x","-","a"," ","b",":"," ","\t"," ","v"," ","\t">>>>,   \* whitespace around a value
      <<<<"X",":"," ",SOH," ","a">>>>,   \* a control byte before a space
      <<<<"X",":"," ","a"," ",SOH>>>>,   \* a control byte after a space
      <<<<"X",":",SOH>>>>,   \* a value of one control byte
      <<<<"X",":"," ","a",DEL,"b">>, <<"Y",":",VT,"c">>>>,   \* control bytes inside a value
      <<<<"X">>>>,   \* no colon
      <<<<"X",":">>>>}   \* nothing after the colon

NormBodies == {<<>>, <<"h","i">>, <<"a","\r","\n","\r","\n","b">>}

\* a request without the separator of head and body
NoSeparator == <<"G","E","T"," ","/"," ","H","T","T","P","/","1",".","1","\r","\n">>

NormRequests ==
    {Join(<<l>> \o hs, CRLF) \o CRLFCRLF \o b :
        l \in NormLines, hs \in NormHeaders, b \in NormBodies} \cup {NoSeparator}

NormalizeInit ==
    /\ call \in [op : {"NormalizeRequest"}, req : NormRequests]
    /\ ret = NoReturn

\* out, err := NormalizeRequest(req)
Normalize ==
    /\ call.op = "NormalizeRequest" /\ ret = NoReturn
    /\ ret' = [done |-> TRUE, again |-> FALSE, first |-> NormalizeRequest(call.req),
               second |-> NormalizeFailed("none"), parsed |-> FALSE,
               hdrs |-> [err |-> "none", h |-> <<>>], older |-> FALSE,
               old |-> NormalizeFailed("none")]
    /\ UNCHANGED call

\* out2, err2 := NormalizeRequest(out)
NormalizeAgain ==
    /\ call.op = "NormalizeRequest" /\ ret.done /\ ~ret.again
    /\ ret.first.err = "nil"
    /\ ret' = [ret EXCEPT !.again = TRUE, !.second = NormalizeRequest(ret.first.out)]
    /\ UNCHANGED call

\* the header lines of req, as ReadRequest of http.go collects them
headerLines(req) ==
    Tail(scanCRLF(Slice(req, 0, Index(req, CRLFCRLF) + 2)))

\* headers, err = parseHeaders(headers), in http.go
ParseHeaders ==
    /\ call.op = "NormalizeRequest" /\ ret.done /\ ~ret.parsed
    /\ Index(call.req, CRLFCRLF) # -1
    /\ ret' = [ret EXCEPT !.parsed = TRUE, !.hdrs = parseHeaders(headerLines(call.req))]
    /\ UNCHANGED call

\* out, err := NormalizeRequest(req), in normalize.go
NormalizeOlder ==
    /\ call.op = "NormalizeRequest" /\ ret.done /\ ~ret.older
    /\ ret' = [ret EXCEPT !.older = TRUE, !.old = NormalizeRequest_older(call.req)]
    /\ UNCHANGED call

SpecNormalizeInit == NormalizeInit /\ ConnIdle /\ StrategyIdle
SpecNormalizeNext ==
    (Normalize \/ NormalizeAgain \/ ParseHeaders \/ NormalizeOlder)
        /\ UNCHANGED <<connVars, stratVars>>
SpecNormalize == SpecNormalizeInit /\ [][SpecNormalizeNext]_vars

----------------------------------------------------------------------------
(* Properties of the normalizer, checked under SpecNormalize.              *)

\* C14: NormalizeRequest is idempotent: whenever NormalizeRequest(x)
\* succeeds, NormalizeRequest of its output succeeds too and returns that
\* output byte for byte.
C14_NormalizeIsIdempotent ==
    (call.op = "NormalizeRequest" /\ ret.done /\ ret.again) =>
        (ret.second.err = "nil" /\ ret.second.out = ret.first.out)

\* the request line of req, its tokens between spaces, and its body
RequestLine(req) == Slice(req, 0, Index(req, CRLF))
Tokens(line) == SelectSeq(Split(line, <<SP>>), LAMBDA tok : tok # <<>>)
Body(req) == Slice(req, Index(req, CRLFCRLF) + 4, Len(req))

\* tok yields a canonical method / a valid version: its letters spell one of
\* the eight methods / its version bytes spell HTTP/1.0 or HTTP/1.1
YieldsMethod(tok) == isValidMethod(SelectSeq(tok, LAMBDA b : b \in Alpha))
YieldsVersion(tok) == isVersion1x(SelectSeq(tok, LAMBDA b : b \in versionTokens))

\* nothing of a path is in tok
Pathless(tok) == \A i \in 1..Len(tok) : tok[i] # "/" /\ tok[i] # "*"

NoMethodIn(toks) == \A i \in 1..Len(toks) : ~YieldsMethod(toks[i])
NoVersionIn(toks) == \A i \in 1..Len(toks) : ~YieldsVersion(toks[i])
\* the last token is where the version stands
NoPathIn(toks) == \A i \in 1..(Len(toks) - 1) : Pathless(toks[i])

HeaderName(h) == Slice(h, 0, Index(h, <<":">>))

\* the header lines of a normalized request
OutputHeaders(out) == Tail(Split(Slice(out, 0, Index(out, CRLFCRLF)), CRLF))

\* hs without its headers named Host, the first one excepted
RECURSIVE FirstHostOnly(_, _)
FirstHostOnly(hs, seen) ==
    IF Len(hs) = 0 THEN <<>>
    ELSE LET host == ToLower(HeaderName(hs[1])) = <<"h","o","s","t">>
         IN (IF host /\ seen THEN <<>> ELSE <<hs[1]>>)
                \o FirstHostOnly(Tail(hs), seen \/ host)

\* the cleaned form of every header line of req
Cleaned(req) ==
    LET hs == headerLines(req) IN [i \in 1..Len(hs) |-> cleanHeader(hs[i]).h]

HostCount(hs) ==
    Cardinality({i \in 1..Len(hs) : ToLower(HeaderName(hs[i])) = <<"h","o","s","t">>})

\* C17: the output of the normalizer (NormalizeRequest, and parseHeaders of
\* http.go) has at most one header named Host in any capitalisation: of the
\* cleaned headers of the input, the first Host header is kept, every later
\* one is dropped, and all other headers are kept in their order.
C17_OnlyTheFirstHostIsKept ==
    /\ (call.op = "NormalizeRequest" /\ ret.done /\ ret.first.err = "nil") =>
          LET hs == OutputHeaders(ret.first.out)
          IN HostCount(hs) <= 1 /\ hs = FirstHostOnly(Cleaned(call.req), FALSE)
    /\ (call.op = "NormalizeRequest" /\ ret.done /\ ret.parsed /\ ret.hdrs.err = "nil") =>
          /\ HostCount(ret.hdrs.h) <= 1
          /\ ret.hdrs.h = FirstHostOnly(Cleaned(call.req), FALSE)

\* a request with two Host headers, written in different capitalisations,
\* and other headers between and after them, went through both functions
C17_SecondHostDropped ==
    /\ call.op = "NormalizeRequest" /\ ret.done /\ ret.first.err = "nil"
    /\ ret.parsed /\ ret.hdrs.err = "nil"
    /\ HostCount(headerLines(call.req)) = 2
    /\ Len(headerLines(call.req)) = 4
    /\ Len(OutputHeaders(ret.first.out)) = 3
    /\ Len(ret.hdrs.h) = 3

----------------------------------------------------------------------------
(* A strategy applied to a canonical request and the result normalized, as  *)
(* TestStrategyNormalization does: SpecRoundTrip.                           *)

CanonicalRequests == {
    \* GET / HTTP/1.1 | Host: a.b
    <<"G","E","T"," ","/"," ","H","T","T","P","/","1",".","1","\r","\n","H","o","s","t",":"," ","a",".","b","\r","\n","\r","\n">>,
    \* GET /a/b HTTP/1.0 | Host: a.b:80 | Accept: */*
    <<"G","E","T"," ","/","a","/","b"," ","H","T","T","P","/","1",".","0","\r","\n","H","o","s","t",":"," ","a",".","b",":","8","0","\r","\n","A","c","c","e","p","t",":"," ","*","/","*","\r","\n","\r","\n">>,
    \* POST /a HTTP/1.1 | Host: a.b | Content-Length: 2 | body hi
    <<"P","O","S","T"," ","/","a"," ","H","T","T","P","/","1",".","1","\r","\n","H","o","s","t",":"," ","a",".","b","\r","\n","C","o","n","t","e","n","t","-","L","e","n","g","t","h",":"," ","2","\r","\n","\r","\n","h","i">>,
    \* PUT /a HTTP/1.1 | X-Host: c | Host: a.b | body hi
    <<"P","U","T"," ","/","a"," ","H","T","T","P","/","1",".","1","\r","\n","X","-","H","o","s","t",":"," ","c","\r","\n","H","o","s","t",":"," ","a",".","b","\r","\n","\r","\n","h","i">>,
    \* HEAD / HTTP/1.0 | Host: a.b
    <<"H","E","A","D"," ","/"," ","H","T","T","P","/","1",".","0","\r","\n","H","o","s","t",":"," ","a",".","b","\r","\n","\r","\n">>,
    \* DELETE /a HTTP/1.1 | Host: a.b
    <<"D","E","L","E","T","E"," ","/","a"," ","H","T","T","P","/","1",".","1","\r","\n","H","o","s","t",":"," ","a",".","b","\r","\n","\r","\n">>,
    \* CONNECT / HTTP/1.1 | Host: a.b
    <<"C","O","N","N","E","C","T"," ","/"," ","H","T","T","P","/","1",".","1","\r","\n","H","o","s","t",":"," ","a",".","b","\r","\n","\r","\n">>,
    \* OPTIONS / HTTP/1.1 | Host: a.b
    <<"O","P","T","I","O","N","S"," ","/"," ","H","T","T","P","/","1",".","1","\r","\n","H","o","s","t",":"," ","a",".","b","\r","\n","\r","\n">>,
    \* TRACE / HTTP/1.1 | Host: a.b
    <<"T","R","A","C","E"," ","/"," ","H","T","T","P","/","1",".","1","\r","\n","H","o","s","t",":"," ","a",".","b","\r","\n","\r","\n">>,
    \* GET /a?b=1 HTTP/1.1 | Host: a.b
    <<"G","E","T"," ","/","a","?","b","=","1"," ","H","T","T","P","/","1",".","1","\r","\n","H","o","s","t",":"," ","a",".","b","\r","\n","\r","\n">> }

Esc09 == <<"%","0","9">>
Esc0D == <<"%","0","D">>

MaxInserts == 2

TriggerMethod == <<"[","H","T","T","P",":","m","e","t","h","o","d",":","*","]">>
TriggerPath == <<"[","H","T","T","P",":","p","a","t","h",":","*","]">>
TriggerVersion == <<"[","H","T","T","P",":","v","e","r","s","i","o","n",":","*","]">>
TriggerHost == <<"[","H","T","T","P",":","h","o","s","t",":","*","]">>

\* rules [HTTP:<field>:*]-insert{<payload>:<start|end>:<component>:<num>}-|
\* whose payload is SP, HTAB or CR bytes
WhitespaceRules ==
    {[trigger |-> tr, tree |-> NewInsertAction(v, l, "value", 1, NilAction)] :
        tr \in {TriggerMethod, TriggerPath, TriggerVersion},
        v \in {Esc20, Esc09, Esc0D}, l \in {"start", "end"}}
    \cup
    {[trigger |-> TriggerHost, tree |-> NewInsertAction(v, "start", "name", n, NilAction)] :
        v \in {Esc20, Esc09, Esc0D \o Esc20}, n \in {1, 2}}

RoundTripInit ==
    /\ call \in [op : {"TestStrategyNormalization"}, req : CanonicalRequests,
                 strategy : UNION {[1..n -> WhitespaceRules] : n \in 1..MaxInserts}]
    /\ ret = NoReturn

\* modReq, err := strat.Apply(test.Request)
RoundTripApply ==
    /\ call.op = "TestStrategyNormalization" /\ ret = NoReturn
    /\ LET r == newRequest(call.req)
       IN /\ ~r.err
          /\ \E q \in apply(ParsedRules(call.strategy), r) :
                ret' = [done |-> TRUE, normalized |-> FALSE, modReq |-> bytes(q),
                        got |-> NormalizeFailed("none")]
    /\ UNCHANGED call

\* got, err := NormalizeRequest(modReq)
RoundTripNormalize ==
    /\ call.op = "TestStrategyNormalization" /\ ret.done /\ ~ret.normalized
    /\ ret' = [ret EXCEPT !.normalized = TRUE, !.got = NormalizeRequest(ret.modReq)]
    /\ UNCHANGED call

SpecRoundTripInit == RoundTripInit /\ ConnIdle /\ StrategyIdle
SpecRoundTripNext ==
    (RoundTripApply \/ RoundTripNormalize) /\ UNCHANGED <<connVars, stratVars>>
SpecRoundTrip == SpecRoundTripInit /\ [][SpecRoundTripNext]_vars

\* C15: for every canonical request r and every strategy of inserts of SP,
\* HTAB or CR bytes at the start or end of the method, path or version or at
\* the start of the Host header name, NormalizeRequest(strategy.Apply(r))
\* succeeds and equals r byte for byte.
C15_NormalizeUndoesWhitespaceInserts ==
    (call.op = "TestStrategyNormalization" /\ ret.done /\ ret.normalized) =>
        (ret.got.err = "nil" /\ ret.got.out = call.req)

\* the layout of a rebuilt request: the request line, every header behind
\* a CRLF, the separator, the body
Rebuilt(n, body) ==
    Join(<<n.method \o <<SP>> \o n.path \o <<SP>> \o n.version>> \o n.headers, CRLF)
        \o CRLFCRLF \o body

\* C18: in both versions of NormalizeRequest (normalize.go and
\* unnamed/part_002), whenever it succeeds the output is the normalized
\* request line, the cleaned headers each behind \r\n, the separator
\* \r\n\r\n, and the input's body unchanged, for empty and non-empty bodies.
C18_OutputIsHeadSeparatorBody ==
    /\ (call.op = "NormalizeRequest" /\ ret.done /\ ret.first.err = "nil") =>
          ret.first.out = Rebuilt(ret.first, Body(call.req))
    /\ (call.op = "NormalizeRequest" /\ ret.done /\ ret.older /\ ret.old.err = "nil") =>
          ret.old.out = Rebuilt(ret.old, Body(call.req))

----------------------------------------------------------------------------
(* A request parsed and serialized again: SpecRequest.                      *)

FramingLines ==
    { <<"G","E","T"," ","/"," ","H","T","T","P","/","1",".","1">>,
      <<"P","O","S","T"," ","/","a"," ","H","T","T","P","/","1",".","0">>,
      <<" ","/"," ","H","T","T","P","/","1",".","1">>,   \* an empty method
      <<"G","E","T"," "," ","/"," ","H","T","T","P","/","1",".","1">>,   \* four tokens
      <<"G","E","T"," ","/"," ","H","T","T","P","/","2">>,   \* another version
      <<"G","E","T"," ","/"," ","h","t","t","p","/","1",".","1">>}   \* a lower-case version

FramingHeaders ==
    { <<>>,   \* no header lines
      <<<<"H","o","s","t",":"," ","a">>>>,
      <<<<"H","o","s","t",":"," ","a">>, <<"X",":"," ","b">>>>,
      <<<<"A",":","b","\n","C">>>>}   \* a bare LF in a header

FramingBodies == {<<>>, <<"h","i">>, <<"\r","\n">>, <<"\r","\n","\r","\n","x">>}

FramingRequests ==
    {Join(<<l>> \o hs, CRLF) \o CRLFCRLF \o b :
        l \in FramingLines, hs \in FramingHeaders, b \in FramingBodies}
    \cup {NoSeparator}

RequestInit ==
    /\ call \in [op : {"newRequest"}, req : FramingRequests]
    /\ ret = NoReturn

\* r, err := newRequest(req)
NewRequest ==
    /\ call.op = "newRequest" /\ ret = NoReturn
    /\ ret' = [done |-> TRUE, r |-> newRequest(call.req), serialized |-> FALSE,
               bytes |-> <<>>]
    /\ UNCHANGED call

\* r.bytes()
Bytes ==
    /\ call.op = "newRequest" /\ ret.done /\ ~ret.serialized /\ ~ret.r.err
    /\ ret' = [ret EXCEPT !.serialized = TRUE, !.bytes = bytes(ret.r)]
    /\ UNCHANGED call

SpecRequestInit == RequestInit /\ ConnIdle /\ StrategyIdle
SpecRequestNext == (NewRequest \/ Bytes) /\ UNCHANGED <<connVars, stratVars>>
SpecRequest == SpecRequestInit /\ [][SpecRequestNext]_vars

\* C19: for every byte string x that newRequest accepts, newRequest(x).bytes()
\* is x byte for byte, also when x has no header lines and when it has a body.
C19_BytesRestoresTheRequest ==
    (call.op = "newRequest" /\ ret.done /\ ret.serialized) => ret.bytes = call.req

----------------------------------------------------------------------------
(* Two adapters made by one client share its strategy, and their callers'   *)
(* Write calls interleave: SpecShared.  A conn holds the strategy's rules   *)
(* by reference (the slice of the value DialContext copies), so an adapter  *)
(* is its own buf, remaining and readHeaders and the strategy both see.     *)

\* an apply that uses its rules up
appliedStrategy_ConsumesRule(rules) == Tail(rules)

\* the strategy after HTTPStrategy.apply ran: apply, trigger.match,
\* rule.apply, the actions' Apply and applyModifications assign to the
\* request and to their locals, and to nothing of the strategy
appliedStrategy(rules) == rules

MaxTurns == 2

SharedRequests == {ReqHostBody, ReqNoBody, ReqNoLength}

\* where a caller may end a Write: in the middle of the separator, behind
\* the head, and at the end of the request
CutPoints(req) ==
    LET h == Index(req, CRLFCRLF)
    IN {h + 2, h + 4, Len(req)}

\* the transports of the adapters take a Write whole, or fail it having
\* accepted all but its last byte
SharedTransports == {t \in Transports : t.fail => t.most}

Adapters == {1, 2}

SharedInit ==
    /\ call \in [op : {"DialContext"}, strategy : ConnStrategies,
                 reqs : [Adapters -> SharedRequests]]
    /\ ret = NoReturn

FreshConn == [buf |-> <<>>, remaining |-> 0, readHeaders |-> FALSE]

\* client.DialContext, twice: &conn{Conn: cc, strategies: c.strategies}
Dial ==
    /\ call.op = "DialContext" /\ ret = NoReturn
    /\ ret' = [done |-> TRUE, shared |-> call.strategy,
               conns |-> [i \in Adapters |-> FreshConn],
               pos |-> [i \in Adapters |-> 0],
               wire |-> [i \in Adapters |-> <<>>],
               hist |-> [i \in Adapters |-> <<>>],
               stopped |-> [i \in Adapters |-> FALSE],
               writer |-> 0, turns |-> 0]
    /\ UNCHANGED call

\* the caller of adapter i hands it the next bytes of its request, up to one
\* of the cut points; it stops at an error and at the end of the request
SharedWrite ==
    /\ call.op = "DialContext" /\ ret.done
    /\ \E i \in Adapters, t \in SharedTransports :
        \E cut \in CutPoints(call.reqs[i]) :
          /\ ~ret.stopped[i]
          /\ cut > ret.pos[i]
          /\ LET p == Slice(call.reqs[i], ret.pos[i], cut)
                 c == [strategy |-> ret.shared, buf |-> ret.conns[i].buf,
                       remaining |-> ret.conns[i].remaining,
                       readHeaders |-> ret.conns[i].readHeaders]
             IN \E r \in connWrite(c, p, t) :
                  ret' = [ret EXCEPT
                            !.shared = IF r.phase = "flush" THEN appliedStrategy(@)
                                       ELSE @,
                            !.conns[i] = [buf |-> r.c.buf, remaining |-> r.c.remaining,
                                          readHeaders |-> r.c.readHeaders],
                            !.pos[i] = cut,
                            !.wire[i] = @ \o r.wrote,
                            !.hist[i] = Append(@, [p |-> p, t |-> t]),
                            !.stopped[i] = r.err \/ cut = Len(call.reqs[i]),
                            !.writer = i,
                            !.turns = IF ret.writer \notin {0, i} /\ @ < MaxTurns
                                      THEN @ + 1 ELSE @]
    /\ UNCHANGED call

SpecSharedInit == SharedInit /\ ConnIdle /\ StrategyIdle
SpecSharedNext == (Dial \/ SharedWrite) /\ UNCHANGED <<connVars, stratVars>>
SpecShared == SpecSharedInit /\ [][SpecSharedNext]_vars

\* what the transport of an adapter that runs alone with the strategy rules
\* has received after the Write calls of hist, made on the conn c
RECURSIVE AloneWires(_, _, _)
AloneWires(c, hist, sent) ==
    IF Len(hist) = 0 THEN {sent}
    ELSE UNION {AloneWires(r.c, Tail(hist), sent \o r.wrote) :
                    r \in connWrite(c, hist[1].p, hist[1].t)}

----------------------------------------------------------------------------
(* Action strings with a successor list, X(Y,Z), under SpecParse.          *)

\* the action a side of the comma stands for; the empty side is absent
SideAction(y) ==
    CASE y = <<>> -> NilAction
      [] y = ChangecaseLowerText -> NewChangecaseAction("lower", NilAction)
      [] y = InsertEndText -> NewInsertAction(<<"x">>, "end", "value", 1, NilAction)

\* the action X with the successor next
HeadAction(x, next) ==
    CASE x = ChangecaseUpperText -> NewChangecaseAction("upper", next)
      [] x = InsertEndText -> NewInsertAction(<<"x">>, "end", "value", 1, next)
      [] x = ReplaceValueText -> NewReplaceAction(<<"y">>, "value", 1, next)

\* C21: parseAction accepts every X(Y,) with X a changecase, insert or
\* replace action and Y a valid action string, and returns X with Y as its
\* successor; it rejects X(Y,Z) exactly when X is not duplicate and Z is a
\* non-empty action.
C21_SuccessorIsTheLeftBranch ==
    \A x \in ChainHeads, y \in ChainSides, z \in ChainSides :
        (call.op = "parseAction" /\ ret.done /\ call.str = ChainText(x, y, z)) =>
            IF x # DUPLICATE /\ z # <<>> THEN ret.err # "nil"
            ELSE /\ ret.err = "nil"
                 /\ ret.value = IF x = DUPLICATE
                                THEN NewDuplicateAction(SideAction(y), SideAction(z))
                                ELSE HeadAction(x, SideAction(y))

----------------------------------------------------------------------------
(* Properties of conn.remaining and conn.readHeaders, checked under Spec.  *)

\* the request has one Content-Length header, and it is the line that
\* conn.Write reads the length from
PlainLength(req) ==
    /\ Index(req, CRLFCRLF) # -1
    /\ ~newRequest(HeadOf(req)).err
    /\ Cardinality(ContentLengths(req)) = 1
    /\ LET clh == getHeader(newRequest(HeadOf(req)), CONTENTLENGTH)
       IN ToLower(LineName(clh)) = CONTENTLENGTH

\* the Content-Length a request with PlainLength declares
DeclaredLength(req) == ParseUint(CHOOSE v \in ContentLengths(req) : TRUE)

\* C25: remaining never wraps around (in this model a wrapped value is below
\* 0): once the head of a request is complete, remaining is its
\* Content-Length minus the body bytes already sent, and at most its
\* Content-Length, also when a Write carries more bytes than were declared.
C25_RemainingNeverWraps ==
    /\ remaining >= 0
    /\ (stage = "writing" /\ readHeaders /\ PlainLength(cur)) =>
            /\ remaining = DeclaredLength(cur) - (pos - Len(HeadOf(cur)))
            /\ remaining <= DeclaredLength(cur)

\* C26: between any two conn.Write calls readHeaders is true only if
\* remaining > 0 (for the uint64 that is remaining # 0), remaining is 0 if
\* readHeaders is false, and buf is empty after a reset; readHeaders with
\* remaining 0 is never left behind.
C26_ReadHeadersOnlyWithRemaining ==
    /\ readHeaders => remaining # 0
    /\ ~readHeaders => remaining = 0
    /\ (last.called /\ ~readHeaders /\ last.phase # "buffered") => buf = <<>>

\* C26 witness: the Write that forwarded the last body bytes of a request
\* returned without an error and left the adapter reset
C26_ResetAfterLastBodyByte ==
    /\ last.called
    /\ last.phase = "body"
    /\ ~last.err
    /\ stage = "complete"
    /\ ~readHeaders
    /\ remaining = 0
    /\ buf = <<>>

----------------------------------------------------------------------------
(* parseRequestLine and cleanHeader called on their own: SpecLine.         *)

\* the tokens request lines are put together from
LineTokens ==
    { <<"G","E","T">>,   \* a canonical method
      <<"G","(","E","T">>,   \* a method with a byte that is cleaned away
      <<"g","e","t">>,   \* a method in lower case
      <<"/","a">>,   \* a path in origin form
      <<"H","T","T","P","/","1",".","1">>,   \* a version
      <<"h","t","<","t","p","/","1",".","0">>,   \* a lower-case version with a byte that is cleaned away
      <<"x">>,   \* nothing of the three
      <<"(">>,   \* cleaned to nothing by findPath
      <<"\t","h","t","t","p">> }   \* a token that ends in http, after a tab

MaxTokens == 3

\* request lines of up to MaxTokens tokens with one space between them, the
\* request lines of NormLines, and lines with other spacing
RequestLines ==
    {Join(ts, <<SP>>) : ts \in UNION {[1..n -> LineTokens] : n \in 2..MaxTokens}}
    \cup NormLines
    \cup { <<>>, <<SP>>,
            <<"G","E","T">>,
            <<" "," ","G","E","T"," ","\t"," ","/","a"," "," "," ","H","T","T","P","/","1",".","1"," ","\r">>,
            <<"G","E","T"," ","\t"," ","/","a"," ","H","T","T","P","/","1",".","1">>,
            <<"a"," ","b"," ","H","T","T","P","/","1",".","1"," ","G","E","T"," ","c"," ","d">>,
            <<"G","E","T"," ","x"," ","/","a"," ","y"," ","H","T","T","P","/","1",".","0"," ","H","T","T","P","/","1",".","1">>,
            <<"H","E","A","D"," ","G","E","T"," ","/","a"," ","H","T","T","P","/","1",".","1">> }

\* header lines: a name, a colon with or without a space behind it, a value
HeaderNames ==
    {<<"H","o","s","t">>, <<"h","O","s","T">>, <<"H"," ","o","(","s","t">>, <<"x","-","a">>, <<"X","-","F","o","r","w","a","r","d","e","d","-","H","o","s","t">>, <<>>}
HeaderValues ==
    {<<"a",".","b">>,
     <<" ","a"," ">>,
     <<SOH," ","a">>,
     <<"a"," ",SOH>>,
     <<"a",DEL,"b">>,
     <<"\t","a","\t","b","\t">>,
     <<"a"," ","(","b",")",":","8">>,
     <<>>,
     <<SOH>>}

HeaderTexts ==
    {n \o <<":">> \o s \o v : n \in HeaderNames, s \in {<<>>, <<SP>>}, v \in HeaderValues}
    \cup {<<>>, <<"X">>, <<"H","o","s","t">>}

LineInit ==
    /\ call \in [op : {"parseRequestLine"}, line : RequestLines]
                \cup [op : {"cleanHeader"}, h : HeaderTexts]
    /\ ret = NoReturn

\* method, path, version, err := parseRequestLine(line)
ParseRequestLine ==
    /\ call.op = "parseRequestLine" /\ ret = NoReturn
    /\ ret' = [done |-> TRUE, rl |-> parseRequestLine(call.line)]
    /\ UNCHANGED call

\* h, err := cleanHeader(h)
CleanHeader ==
    /\ call.op = "cleanHeader" /\ ret = NoReturn
    /\ ret' = [done |-> TRUE, hdr |-> cleanHeader(call.h)]
    /\ UNCHANGED call

SpecLineInit == LineInit /\ ConnIdle /\ StrategyIdle
SpecLineNext == (ParseRequestLine \/ CleanHeader) /\ UNCHANGED <<connVars, stratVars>>
SpecLine == SpecLineInit /\ [][SpecLineNext]_vars

----------------------------------------------------------------------------
(* Properties of parseRequestLine and cleanHeader, checked under SpecLine.  *)

\* the tokens of a request line: what stands between its spaces, without
\* the whitespace around it
TrimmedTokens(line) ==
    LET parts == Split(line, <<SP>>)
        trimmed == [i \in 1..Len(parts) |-> TrimSpace(parts[i])]
    IN SelectSeq(trimmed, LAMBDA tok : tok # <<>>)

LettersOf(tok) == SelectSeq(tok, LAMBDA b : b \in Alpha)
VersionBytesOf(tok) == SelectSeq(tok, LAMBDA b : b \in versionTokens)

\* the 0-based indices of the tokens a method / a version is recovered from
MethodTokens(toks) == {i \in 0..(Len(toks) - 3) : YieldsMethod(toks[i + 1])}
VersionTokens(toks) == {i \in 2..(Len(toks) - 1) : YieldsVersion(toks[i + 1])}

Leftmost(S) == CHOOSE i \in S : \A j \in S : i <= j
Rightmost(S) == CHOOSE i \in S : \A j \in S : i >= j

\* C22: for a request line of at least three tokens parseRequestLine returns
\* as method the letters of the leftmost token among the indices 0..len-3
\* whose letters spell one of the eight methods (empty if there is none), and
\* as version the version bytes of the rightmost token among the indices
\* len-1 down to 2 whose version bytes spell HTTP/1.0 or HTTP/1.1 in upper or
\* lower case (empty if there is none); with fewer tokens it returns an error.
C22_MethodLeftmostVersionRightmost ==
    (call.op = "parseRequestLine" /\ ret.done) =>
        LET toks == TrimmedTokens(call.line)
            ms == MethodTokens(toks)
            vs == VersionTokens(toks)
        IN IF Len(toks) < 3 THEN ret.rl.err = "error"
           ELSE /\ ret.rl.err = "nil"
                /\ ret.rl.method = IF ms = {} THEN <<>> ELSE LettersOf(toks[Leftmost(ms) + 1])
                /\ ret.rl.version = IF vs = {} THEN <<>>
                                    ELSE VersionBytesOf(toks[Rightmost(vs) + 1])

\* the path findPath recovers from toks, "/" when it finds none
RecoveredPath(toks) ==
    LET p == findPath(toks) IN IF p.path = <<>> THEN <<"/">> ELSE p.path

\* the tokens the path is to be recovered from: those after the method token
\* when a method was recovered, else from the first token on; up to the
\* version token when a version was recovered, else through the last token
PathTokens(toks) ==
    LET ms == MethodTokens(toks)
        vs == VersionTokens(toks)
    IN Slice(toks, IF ms = {} THEN 0 ELSE Leftmost(ms) + 1,
                   IF vs = {} THEN Len(toks) ELSE Rightmost(vs))

\* C23: the path parseRequestLine returns is recovered from the tokens
\* strictly between the method token and the version token; when the method
\* is not recovered the first token is among them, when the version is not
\* recovered the last token is.
C23_PathFromTokensBetween ==
    (/\ call.op = "parseRequestLine" /\ ret.done /\ ret.rl.err = "nil"
     /\ findPath(PathTokens(TrimmedTokens(call.line))).err = "nil")
    => ret.rl.path = RecoveredPath(PathTokens(TrimmedTokens(call.line)))

\* the first letter of s and every letter after a '-' is upper case, every
\* other letter lower case
RECURSIVE Capitalised(_, _)
Capitalised(s, upper) ==
    \/ Len(s) = 0
    \/ /\ s[1] = (IF upper THEN ToUpperChar(s[1]) ELSE ToLowerChar(s[1]))
       /\ Capitalised(Tail(s), s[1] = "-")

\* C24: for a header line with a ':' cleanHeader returns a line whose name
\* has only tchar bytes, in canonical MIME capitalisation; whose value has
\* only host-table bytes when the name is Host, and else neither leading nor
\* trailing whitespace nor a control byte other than HTAB; in which exactly
\* one space follows the colon iff the input value began with a space; and
\* which is not longer than the input.
C24_CleanHeaderOutput ==
    (call.op = "cleanHeader" /\ ret.done /\ Index(call.h, <<":">>) # -1) =>
        /\ ret.hdr.err = "nil"
        /\ LET out == ret.hdr.h
               name == LineName(out)
               after == LineValue(out)
               given == LineValue(call.h)
               space == given # <<>> /\ given[1] = SP
               value == IF space THEN Slice(after, 1, Len(after)) ELSE after
           IN /\ Index(out, <<":">>) # -1
              /\ \A i \in 1..Len(name) : name[i] \in validTokenTable
              /\ Capitalised(name, TRUE)
              /\ IF name = HOST
                 THEN \A i \in 1..Len(value) : value[i] \in hostTokenTable
                 ELSE /\ value = <<>> \/ (~isSpace(value[1]) /\ ~isSpace(value[Len(value)]))
                      /\ \A i \in 1..Len(value) : value[i] \in Ctrl => value[i] = HTAB
              /\ space => (after # <<>> /\ after[1] = SP)
              /\ after = <<>> \/ after[1] # SP \/ (space /\ (Len(after) = 1 \/ after[2] # SP))
              /\ Len(out) <= Len(call.h)

----------------------------------------------------------------------------
(* Further properties of the normalizer, checked under SpecNormalize.      *)

\* C27: the normalizer is total: NormalizeRequest, and through it
\* parseRequestLine, findPath and cleanHeader, returns an output or an error
\* for every input and never fails with an index out of range.
C27_NormalizerNeverPanics ==
    (call.op = "NormalizeRequest" /\ ret.done) =>
        /\ ret.first.err # "panic"
        /\ ret.second.err # "panic"
        /\ ret.hdrs.err # "panic"

\* p is in origin form, absolute form or asterisk form
PathForm(p) ==
    \/ (Len(p) > 0 /\ p[1] = "/")
    \/ HasPrefix(ToLower(p), <<"h","t","t","p",":","/","/">>)
    \/ HasPrefix(ToLower(p), <<"h","t","t","p","s",":","/","/">>)
    \/ p = <<"*">>

\* C28: whenever NormalizeRequest succeeds, the request line of its output
\* is a method out of GET, HEAD, POST, PUT, DELETE, CONNECT, OPTIONS, TRACE,
\* a non-empty path in origin, absolute or asterisk form, and the version
\* "HTTP/1.0" or "HTTP/1.1" in upper case, with single spaces between them.
C28_OutputRequestLineIsStrict ==
    (call.op = "NormalizeRequest" /\ ret.done /\ ret.first.err = "nil") =>
        LET out == Split(RequestLine(ret.first.out), <<SP>>)
        IN /\ Len(out) = 3
           /\ isValidMethod(out[1])
           /\ out[2] # <<>> /\ PathForm(out[2])
           /\ out[3] \in {HTTP10, HTTP11}

----------------------------------------------------------------------------
(* A header looked up by name in a parsed request: SpecHeader.              *)

LookupLines ==
    { <<"H","o","s","t",":"," ","a">>,
      <<"h","o","s","t",":"," ","b">>,
      <<"X","-","F","o","r","w","a","r","d","e","d","-","H","o","s","t",":"," ","c">>,
      <<"C","o","n","t","e","n","t","-","L","e","n","g","t","h",":"," ","2">>,
      <<"X","-","C","o","n","t","e","n","t","-","L","e","n","g","t","h",":"," ","1">>,
      <<"R","e","f","e","r","e","r",":"," ","h","o","s","t",":"," ","d">>,
      <<"A","c","c","e","p","t",":"," ","x">>}

\* header blocks of zero, one and two different lines
LookupBlocks ==
    {<<>>} \cup {<<l>> : l \in LookupLines}
        \cup {b \in LookupLines \X LookupLines : b[1] # b[2]}

\* the names the code looks up: a trigger's target field arrives lower-cased
\* from the rule text, the adapter asks for content-length
LookupNames == {<<"h","o","s","t">>, <<"c","o","n","t","e","n","t","-","l","e","n","g","t","h">>, <<"a","c","c","e","p","t">>}

LookupRequest(block) ==
    <<"G","E","T"," ","/"," ","H","T","T","P","/","1",".","1">> \o CRLF \o Join(block, CRLF) \o CRLFCRLF

HeaderInit ==
    /\ call \in [op : {"getHeader"}, block : LookupBlocks, name : LookupNames]
    /\ ret = NoReturn

\* r, _ := newRequest(req); header := r.getHeader(name)
GetHeader ==
    /\ call.op = "getHeader" /\ ret = NoReturn
    /\ ret' = [done |-> TRUE,
               header |-> getHeader(newRequest(LookupRequest(call.block)), call.name)]
    /\ UNCHANGED call

SpecHeaderInit == HeaderInit /\ ConnIdle /\ StrategyIdle
SpecHeaderNext == GetHeader /\ UNCHANGED <<connVars, stratVars>>
SpecHeader == SpecHeaderInit /\ [][SpecHeaderNext]_vars

\* the name of a header line: the text before its first colon
NameOfLine(l) == Slice(l, 0, Index(l, <<":">>))

\* the lines of a block whose name is name, letter case aside
LinesNamed(block, name) ==
    SelectSeq(block, LAMBDA l : ToLower(NameOfLine(l)) = name)

\* C29: getHeader(name) returns a complete header line of the request whose
\* name equals name letter case aside (the first such line), never text that
\* starts inside another header's name or inside a value, and it returns the
\* empty string when no header line has that name.
C29_SelectsTheHeaderNamed ==
    (call.op = "getHeader" /\ ret.done) =>
        LET named == LinesNamed(call.block, call.name)
        IN IF named = <<>> THEN ret.header = <<>> ELSE ret.header = named[1]

\* the lookup names a suffix of another header's name
C29_FragmentOfAnotherName ==
    /\ call.op = "getHeader" /\ ret.done
    /\ LinesNamed(call.block, call.name) = <<>>
    /\ ret.header # <<>>

----------------------------------------------------------------------------
(* The printed form parsed again, checked under SpecParse.                  *)

\* C30: the string form of every successfully parsed strategy (and action)
\* is accepted by the parser, and what it parses to has the same string
\* form: printing is a fixpoint of parse-then-print, for every shape of the
\* action tree, a duplicate with two non-empty branches included.
C30_PrintedFormParsesToItself ==
    (ret.done /\ ret.err = "nil" /\ ret.printed /\ ret.again) =>
        ret.err2 = "nil" /\ ret.str2 = ret.str

\* a parsed tree that holds a duplicate action
RECURSIVE HasDuplicate(_)
HasDuplicate(a) ==
    CASE a.kind = "duplicate" -> TRUE
      [] a.kind \in {"changecase", "insert", "replace"} -> HasDuplicate(a.Next)
      [] OTHER -> FALSE

\* C30 for the parsed strategies and actions without a duplicate action
C30_FixpointWithoutDuplicate ==
    (ret.done /\ ret.err = "nil" /\ ret.printed /\ ret.again
        /\ IF call.op = "parseAction" THEN ~HasDuplicate(ret.value)
           ELSE \A i \in 1..Len(ret.value) : ~HasDuplicate(ret.value[i].tree)) =>
        ret.err2 = "nil" /\ ret.str2 = ret.str

====
